---------------------------- MODULE Spec2Model ----------------------------
(***************************************************************************)
(* A model of lc::MPMCQueue (include/lc_mpmc_queue.h), the wait strategies *)
(* (include/lc_wait_strategy.h) and lc::ThreadPool                         *)
(* (include/lc_thread_pool.h).                                             *)
(*                                                                         *)
(* Every shared-memory access of the code (an atomic load, store or        *)
(* compare-exchange, a write or move of a cell's value) is one step of the *)
(* thread that performs it; pc[t] is the place thread t has reached.       *)
(***************************************************************************)
EXTENDS Integers, Sequences, FiniteSets, TLC

(***************************************************************************)
(* Bounds of the model.                                                    *)
(***************************************************************************)
\* std::size_t is modelled as an unsigned integer of Width bits.
Width == 4
\* The queue is constructed with queue_size = 2^LogQueueSize.
LogQueueSize == 1
\* Threads that call enqueue (queue clients or submitters of the pool).
NumProducers == 2
\* Threads that call dequeue (queue clients or the pool's PoolSize workers).
NumConsumers == 2
\* Values each producer gets accepted before it stops.
MaxEnq == 2
\* Threads that call submit on the pool.
NumSubmitters == 1
\* Calls of submit made on one pool, over all submitters.
MaxSubmits == 3
\* Calls of shutdown() by the owner of the pool (the last one by ~ThreadPool).
MaxShutdowns == 3
\* The values a sequential client enqueues are 1 .. MaxSeqValue.
MaxSeqValue == 2
\* SpinBackOffWaitStrategy<KSpinCount, KPauseCount>.
KSpinCount == 1
KPauseCount == 1
\* sizeof(Cell) is 2^LogCellBytes bytes (alignas(64) for a std::size_t of 64
\* bits, scaled to the Width of the model).
LogCellBytes == 1

\* Channel<ValueType, MAX_SIZE>: its capacity, the threads that send and
\* those that receive, and the number of calls they make.
MAX_SIZE == 2
NumSenders == 2
NumReceivers == 3
MaxSends == 4
MaxReceives == 5

Mod == 2 ^ Width
queue_size == 2 ^ LogQueueSize
pool_mask_ == queue_size - 1

Producers == 1 .. NumProducers
Consumers == (NumProducers + 1) .. (NumProducers + NumConsumers)
Threads == Producers \cup Consumers
\* The producers that submit to the pool; the consumers are its workers.
Submitters == 1 .. NumSubmitters

\* The k-th value of producer t (as the test's i * items_per_thread + j).
ValueOf(t, k) == t * 10 + k
Values ==
    {ValueOf(t, k) : t \in Producers, k \in 1 .. MaxEnq} \cup
    {ValueOf(t, k) : t \in Submitters, k \in 1 .. MaxSubmits}
Envelopes == {ValueOf(t, k) : t \in Submitters, k \in 1 .. MaxSubmits}
\* A value-initialised Tp_ (make_unique<Cell[]>) and a moved-from Tp_.
DefaultValue == 0
MovedFrom == -1

VARIABLES
    sequence,        \* pool_[i].sequence
    value,           \* pool_[i].value
    enqueue_index_,  \* the queue's enqueue position
    dequeue_index_,  \* the queue's dequeue position
    pc,              \* where each thread is
    pos,             \* the local pos of the operation a thread runs
    arg,             \* enqueue's parameter value
    out,             \* dequeue's out parameter
    ret,             \* the result of the thread's last enqueue or dequeue
    claimed,         \* history: logical position the running operation claimed
    enqClaims,       \* history: number of enqueue positions claimed so far
    deqClaims,       \* history: number of dequeue positions claimed so far
    enqAt,           \* history: value written at each logical position
    enqDone,         \* history: logical positions whose enqueue returned true
    deqAt,           \* history: value moved out of each logical position
    deqDone,         \* history: logical positions whose dequeue returned true
    received,        \* history: per consumer of the bare queue, the values
                     \* dequeued, in order
    seen             \* history: what was true when the cell sequence was read

qvars == <<sequence, value, enqueue_index_, dequeue_index_, pc, pos, arg, out,
           ret, claimed, enqClaims, deqClaims, enqAt, enqDone, deqAt,
           deqDone, received, seen>>

VARIABLES
    state_,          \* ThreadPool::state_
    active_tasks_,   \* ThreadPool::active_tasks_
    strategy,        \* the WaitStrategy the pool is instantiated with
    notified_,       \* AtomicWaitStrategy / ConditionVariableWaitStrategy
    spin_count_,     \* SpinBackOffWaitStrategy::spin_count_
    spinv,           \* the spin_count_ a worker's wait() has read
    mpc,             \* where the thread that owns the pool is
    mi,              \* its loop index over workers_
    shutdowns,       \* history: calls of shutdown() so far
    calls,           \* history: submit calls made by each submitter
    calledIn,        \* history: state_ when the running submit was called
    executed,        \* how often each envelope was invoked (the tasks' counter)
    future,          \* the shared state of each envelope's std::future
    submitted,       \* history: envelopes whose submit returned a future
    sawStopping,     \* history: some worker has loaded state_ = Stopping
    drainSet,        \* history: envelopes enqueued before that first load
    atShutdown       \* history: envelopes submitted before shutdown() began

pvars == <<state_, active_tasks_, strategy, notified_, spin_count_, spinv,
           mpc, mi, shutdowns, calls, calledIn, executed, future, submitted,
           sawStopping, drainSet, atShutdown>>

VARIABLES
    ref,             \* the reference FIFO a sequential client compares with
    ctor,            \* a run of MPMCQueue(queue_size): its locals and members
    second,          \* a second thread that calls shutdown(): its position
    notifies         \* history: calls of notify() made by each submitter

VARIABLES
    m_queue,         \* Channel::_m_queue
    m_closed,        \* Channel::_m_closed
    cpc,             \* where each thread that uses the channel is
    cval,            \* send's parameter value
    cres,            \* what the thread's last call on the channel returned
    sends,           \* history: calls of send so far
    receives,        \* history: calls of receive so far
    atClose,         \* history: _m_queue when close() was first called
    sinceClose       \* history: what receive() returned since, in order

cvars == <<m_queue, m_closed, cpc, cval, cres, sends, receives, atClose,
           sinceClose>>

evars == <<ref, ctor, second, notifies, cvars>>

vars == <<qvars, pvars, evars>>

(***************************************************************************)
(* Arithmetic of std::size_t and std::intptr_t.                            *)
(***************************************************************************)
\* Unsigned arithmetic wraps modulo 2^Width.
Wrap(x) == x % Mod

\* Mutant: the difference is taken in the integers, without the wrap.
PlainDiff(a, b) == a - b

\* (std::intptr_t)a - (std::intptr_t)b, in two's complement of Width bits.
SignedDiff(a, b) ==
    LET d == (a - b) % Mod
    IN  IF d >= Mod \div 2 THEN d - Mod ELSE d

\* pool_[pos & pool_mask_]: queue_size is a power of two.
CellIndex(p) == p % queue_size

\* Mutant: the enqueue stores pos, not pos + 1.
EnqPublishSamePos(p) == Wrap(p)
\* The sequence an enqueue at pos publishes.
EnqPublish(p) == Wrap(p + 1)
\* Mutant: the dequeue compares the sequence with pos, not pos + 1.
DeqExpectSamePos(p) == Wrap(p)
\* Mutant: the dequeue stores pos + pool_mask_, not pos + pool_mask_ + 1.
DeqPublishOneShort(p) == Wrap(p + pool_mask_)
\* Mutant: the dequeue puts the sequence of the cell back to the cell's index.
DeqPublishCellIndex(p) == CellIndex(p)
\* The sequence a dequeue at pos waits for, and the one it publishes.
DeqExpect(p) == Wrap(p + 1)
DeqPublish(p) == Wrap(p + pool_mask_ + 1)

\* Positions 0 .. MaxPos-1 can be claimed within the bounds.
MaxPos ==
    IF NumProducers * MaxEnq > MaxSubmits THEN NumProducers * MaxEnq
    ELSE MaxSubmits
Positions == 0 .. (MaxPos - 1)
\* History marker: no value recorded, distinct from every value of a cell.
NoValue == MovedFrom - 1
NoSeen == [n |-> 0, ok |-> FALSE]
NoRef == [q |-> <<>>, ret |-> FALSE, out |-> DefaultValue]
NoCtor == [at |-> "none"]
NoSecond == [pc |-> "none", i |-> 0]
NoNotifies == [t \in Threads |-> 0]

(***************************************************************************)
(* MPMCQueue(queue_size): the constructor.                                 *)
(***************************************************************************)
QueueInit ==
    /\ sequence = [i \in 0 .. (queue_size - 1) |-> i]
    /\ value = [i \in 0 .. (queue_size - 1) |-> DefaultValue]
    /\ enqueue_index_ = 0
    /\ dequeue_index_ = 0
    /\ enqClaims = 0
    /\ deqClaims = 0
    /\ enqAt = [p \in Positions |-> NoValue]
    /\ enqDone = {}
    /\ deqAt = [p \in Positions |-> NoValue]
    /\ deqDone = {}

\* The number of elements whose enqueue has returned true and whose position
\* no dequeue has claimed yet.
Unconsumed == Cardinality({p \in enqDone : p >= deqClaims})

\* enqueue_index_ - dequeue_index_: the positions claimed by an enqueue and
\* not yet claimed by a dequeue.
Gap == SignedDiff(enqueue_index_, dequeue_index_)

\* History of the step that decides an enqueue (the read of the cell sequence
\* that finds diff < 0, the exchange that claims the position): the gap at that
\* moment, and whether the cell of the next enqueue position is free (the dequeue of
\* the position queue_size before it has stored the cell's sequence).
SeenByEnqueue ==
    [n |-> Gap,
     ok |-> enqClaims < queue_size \/ (enqClaims - queue_size) \in deqDone]

\* History of the step that decides a dequeue: the elements whose
\* enqueue has returned and that no dequeue has claimed, and whether the
\* element at the next dequeue position is published.
SeenByDequeue == [n |-> Unconsumed, ok |-> deqClaims \in enqDone]

(***************************************************************************)
(* enqueue(Tp_ value), one step per shared access.                         *)
(***************************************************************************)
\* Mutant: an enqueue that finds the queue full reloads the index and tries
\* again instead of returning false.
EnqLoadSeqWaitsForRoom(t) ==
    /\ pc[t] = "e_seq"
    /\ LET diff == SignedDiff(sequence[CellIndex(pos[t])], pos[t])
       IN  \/ /\ diff = 0
              /\ pc' = [pc EXCEPT ![t] = "e_cas"]
              /\ UNCHANGED pos
           \/ /\ diff # 0
              /\ pos' = [pos EXCEPT ![t] = enqueue_index_]
              /\ UNCHANGED pc
    /\ UNCHANGED <<sequence, value, enqueue_index_, dequeue_index_, arg, out,
                   ret, seen, claimed, enqClaims, deqClaims, enqAt, enqDone,
                   deqAt, deqDone, received>>
    /\ UNCHANGED pvars
    /\ UNCHANGED evars

\* Mutant: an enqueue that finds the cell of its position taken claims the
\* position all the same.
EnqLoadSeqIgnoresFull(t) ==
    /\ pc[t] = "e_seq"
    /\ LET diff == SignedDiff(sequence[CellIndex(pos[t])], pos[t])
       IN  \/ /\ diff <= 0
              /\ pc' = [pc EXCEPT ![t] = "e_cas"]
              /\ UNCHANGED <<pos, ret, seen>>
           \/ /\ diff > 0
              /\ pos' = [pos EXCEPT ![t] = enqueue_index_]
              /\ UNCHANGED <<pc, ret, seen>>
    /\ UNCHANGED <<sequence, value, enqueue_index_, dequeue_index_, arg, out,
                   claimed, enqClaims, deqClaims, enqAt, enqDone, deqAt,
                   deqDone, received>>
    /\ UNCHANGED pvars
    /\ UNCHANGED evars

\* seq = cell.sequence.load(acquire); diff = seq - pos; the three branches,
\* the last with its pos = enqueue_index_.load(relaxed).
EnqLoadSeq(t) ==
    /\ pc[t] = "e_seq"
    /\ LET diff == SignedDiff(sequence[CellIndex(pos[t])], pos[t])
       IN  \/ /\ diff = 0
              /\ pc' = [pc EXCEPT ![t] = "e_cas"]
              /\ UNCHANGED <<pos, ret, seen>>
           \/ /\ diff < 0
              /\ pc' = [pc EXCEPT ![t] = "e_ret"]
              /\ ret' = [ret EXCEPT ![t] = FALSE]
              /\ UNCHANGED pos
              /\ seen' = [seen EXCEPT ![t] = SeenByEnqueue]
           \/ /\ diff > 0
              /\ pos' = [pos EXCEPT ![t] = enqueue_index_]
              /\ UNCHANGED <<pc, ret, seen>>
    /\ UNCHANGED <<sequence, value, enqueue_index_, dequeue_index_, arg, out,
                   claimed, enqClaims, deqClaims, enqAt, enqDone, deqAt,
                   deqDone, received>>
    /\ UNCHANGED pvars
    /\ UNCHANGED evars

\* Mutant: the position is claimed by a plain store, without comparing.
EnqCasNoCompare(t) ==
    /\ pc[t] = "e_cas"
    /\ enqueue_index_' = Wrap(pos[t] + 1)
    /\ pc' = [pc EXCEPT ![t] = "e_write"]
    /\ claimed' = [claimed EXCEPT ![t] = enqClaims]
    /\ enqClaims' = enqClaims + 1
    /\ seen' = [seen EXCEPT ![t] = SeenByEnqueue]
    /\ UNCHANGED <<sequence, value, dequeue_index_, pos, arg, out, ret,
                   deqClaims, enqAt, enqDone, deqAt, deqDone, received>>
    /\ UNCHANGED pvars
    /\ UNCHANGED evars

\* enqueue_index_.compare_exchange_weak(pos, pos + 1, relaxed).  A failure
\* loads the current index into pos; a weak exchange may also fail although
\* the index equals pos.
\* The exchange compares: it claims the position, or fails because the
\* index has moved.
EnqCasStrong(t) ==
    /\ pc[t] = "e_cas"
    /\ \/ /\ enqueue_index_ = pos[t]
          /\ enqueue_index_' = Wrap(pos[t] + 1)
          /\ pc' = [pc EXCEPT ![t] = "e_write"]
          /\ claimed' = [claimed EXCEPT ![t] = enqClaims]
          /\ enqClaims' = enqClaims + 1
          /\ seen' = [seen EXCEPT ![t] = SeenByEnqueue]
          /\ UNCHANGED pos
       \/ /\ enqueue_index_ # pos[t]
          /\ pos' = [pos EXCEPT ![t] = enqueue_index_]
          /\ pc' = [pc EXCEPT ![t] = "e_seq"]
          /\ UNCHANGED <<enqueue_index_, claimed, enqClaims, seen>>
    /\ UNCHANGED <<sequence, value, dequeue_index_, arg, out, ret, deqClaims,
                   enqAt, enqDone, deqAt, deqDone, received>>
    /\ UNCHANGED pvars
    /\ UNCHANGED evars

\* The weak exchange fails although the index equals pos.
EnqCasSpurious(t) ==
    /\ pc[t] = "e_cas"
    /\ enqueue_index_ = pos[t]
    /\ pc' = [pc EXCEPT ![t] = "e_seq"]
    /\ UNCHANGED <<sequence, value, enqueue_index_, dequeue_index_, pos, arg,
                   out, ret, claimed, enqClaims, deqClaims, enqAt, enqDone,
                   deqAt, deqDone, received, seen>>
    /\ UNCHANGED pvars
    /\ UNCHANGED evars

EnqCas(t) == EnqCasStrong(t) \/ EnqCasSpurious(t)

\* Mutant: the value is written into the cell after the claimed one.
EnqWriteValueNextCell(t) ==
    /\ pc[t] = "e_write"
    /\ value' = [value EXCEPT ![CellIndex(pos[t] + 1)] = arg[t]]
    /\ enqAt' = [enqAt EXCEPT ![claimed[t]] = arg[t]]
    /\ pc' = [pc EXCEPT ![t] = "e_store"]
    /\ UNCHANGED <<sequence, enqueue_index_, dequeue_index_, pos, arg, out,
                   ret, claimed, enqClaims, deqClaims, enqDone, deqAt,
                   deqDone, received, seen>>
    /\ UNCHANGED pvars
    /\ UNCHANGED evars

\* Mutant: the step that is to write the value stores the sequence of the
\* cell instead, and so publishes a slot that is still held.
EnqPublishInsteadOfWrite(t) ==
    /\ pc[t] = "e_write"
    /\ sequence' = [sequence EXCEPT ![CellIndex(pos[t])] = EnqPublish(pos[t])]
    /\ enqAt' = [enqAt EXCEPT ![claimed[t]] = arg[t]]
    /\ pc' = [pc EXCEPT ![t] = "e_store"]
    /\ UNCHANGED <<value, enqueue_index_, dequeue_index_, pos, arg, out,
                   ret, claimed, enqClaims, deqClaims, enqDone, deqAt,
                   deqDone, received, seen>>
    /\ UNCHANGED pvars
    /\ UNCHANGED evars

\* cell.value = std::move(value).
EnqWriteValue(t) ==
    /\ pc[t] = "e_write"
    /\ value' = [value EXCEPT ![CellIndex(pos[t])] = arg[t]]
    /\ enqAt' = [enqAt EXCEPT ![claimed[t]] = arg[t]]
    /\ pc' = [pc EXCEPT ![t] = "e_store"]
    /\ UNCHANGED <<sequence, enqueue_index_, dequeue_index_, pos, arg, out,
                   ret, claimed, enqClaims, deqClaims, enqDone, deqAt,
                   deqDone, received, seen>>
    /\ UNCHANGED pvars
    /\ UNCHANGED evars

\* Mutant: enqueue returns true without storing the sequence of the cell.
EnqReturnNoStore(t) ==
    /\ pc[t] = "e_store"
    /\ ret' = [ret EXCEPT ![t] = TRUE]
    /\ enqDone' = enqDone \cup {claimed[t]}
    /\ pc' = [pc EXCEPT ![t] = "e_ret"]
    /\ UNCHANGED <<sequence, value, enqueue_index_, dequeue_index_, pos, arg,
                   out, claimed, enqClaims, deqClaims, enqAt, deqAt, deqDone,
                   received, seen>>
    /\ UNCHANGED pvars
    /\ UNCHANGED evars

\* cell.sequence.store(pos + 1, release); return true.
EnqStoreSeq(t) ==
    /\ pc[t] = "e_store"
    /\ sequence' = [sequence EXCEPT ![CellIndex(pos[t])] = EnqPublish(pos[t])]
    /\ ret' = [ret EXCEPT ![t] = TRUE]
    /\ enqDone' = enqDone \cup {claimed[t]}
    /\ pc' = [pc EXCEPT ![t] = "e_ret"]
    /\ UNCHANGED <<value, enqueue_index_, dequeue_index_, pos, arg, out,
                   claimed, enqClaims, deqClaims, enqAt, deqAt, deqDone,
                   received, seen>>
    /\ UNCHANGED pvars
    /\ UNCHANGED evars

Enqueue(t) ==
    \/ EnqLoadSeq(t)
    \/ EnqCas(t)
    \/ EnqWriteValue(t)
    \/ EnqStoreSeq(t)

(***************************************************************************)
(* dequeue(Tp_ &value), one step per shared access.                        *)
(***************************************************************************)
\* Mutant: on an empty queue dequeue resets its out parameter.
DeqLoadSeqClearsOut(t) ==
    /\ pc[t] = "d_seq"
    /\ LET diff == SignedDiff(sequence[CellIndex(pos[t])], DeqExpect(pos[t]))
       IN  \/ /\ diff = 0
              /\ pc' = [pc EXCEPT ![t] = "d_cas"]
              /\ UNCHANGED <<pos, ret, seen, out>>
           \/ /\ diff < 0
              /\ pc' = [pc EXCEPT ![t] = "d_ret"]
              /\ ret' = [ret EXCEPT ![t] = FALSE]
              /\ out' = [out EXCEPT ![t] = DefaultValue]
              /\ UNCHANGED pos
              /\ seen' = [seen EXCEPT ![t] = SeenByDequeue]
           \/ /\ diff > 0
              /\ pos' = [pos EXCEPT ![t] = dequeue_index_]
              /\ UNCHANGED <<pc, ret, seen, out>>
    /\ UNCHANGED <<sequence, value, enqueue_index_, dequeue_index_, arg,
                   claimed, enqClaims, deqClaims, enqAt, enqDone, deqAt,
                   deqDone, received>>
    /\ UNCHANGED pvars
    /\ UNCHANGED evars

\* seq = cell.sequence.load(acquire); diff = seq - (pos + 1); the three
\* branches, the last with its pos = dequeue_index_.load(relaxed).
DeqLoadSeq(t) ==
    /\ pc[t] = "d_seq"
    /\ LET diff == SignedDiff(sequence[CellIndex(pos[t])], DeqExpect(pos[t]))
       IN  \/ /\ diff = 0
              /\ pc' = [pc EXCEPT ![t] = "d_cas"]
              /\ UNCHANGED <<pos, ret, seen>>
           \/ /\ diff < 0
              /\ pc' = [pc EXCEPT ![t] = "d_ret"]
              /\ ret' = [ret EXCEPT ![t] = FALSE]
              /\ UNCHANGED pos
              /\ seen' = [seen EXCEPT ![t] = SeenByDequeue]
           \/ /\ diff > 0
              /\ pos' = [pos EXCEPT ![t] = dequeue_index_]
              /\ UNCHANGED <<pc, ret, seen>>
    /\ UNCHANGED <<sequence, value, enqueue_index_, dequeue_index_, arg, out,
                   claimed, enqClaims, deqClaims, enqAt, enqDone, deqAt,
                   deqDone, received>>
    /\ UNCHANGED pvars
    /\ UNCHANGED evars

\* dequeue_index_.compare_exchange_weak(pos, pos + 1, relaxed).
\* Mutant: the dequeue position is claimed by a plain store.
DeqCasNoCompare(t) ==
    /\ pc[t] = "d_cas"
    /\ dequeue_index_' = Wrap(pos[t] + 1)
    /\ pc' = [pc EXCEPT ![t] = "d_move"]
    /\ claimed' = [claimed EXCEPT ![t] = deqClaims]
    /\ deqClaims' = deqClaims + 1
    /\ seen' = [seen EXCEPT ![t] = SeenByDequeue]
    /\ UNCHANGED <<sequence, value, enqueue_index_, pos, arg, out, ret,
                   enqClaims, enqAt, enqDone, deqAt, deqDone, received>>
    /\ UNCHANGED pvars
    /\ UNCHANGED evars

DeqCasStrong(t) ==
    /\ pc[t] = "d_cas"
    /\ \/ /\ dequeue_index_ = pos[t]
          /\ dequeue_index_' = Wrap(pos[t] + 1)
          /\ pc' = [pc EXCEPT ![t] = "d_move"]
          /\ claimed' = [claimed EXCEPT ![t] = deqClaims]
          /\ deqClaims' = deqClaims + 1
          /\ seen' = [seen EXCEPT ![t] = SeenByDequeue]
          /\ UNCHANGED pos
       \/ /\ dequeue_index_ # pos[t]
          /\ pos' = [pos EXCEPT ![t] = dequeue_index_]
          /\ pc' = [pc EXCEPT ![t] = "d_seq"]
          /\ UNCHANGED <<dequeue_index_, claimed, deqClaims, seen>>
    /\ UNCHANGED <<sequence, value, enqueue_index_, arg, out, ret, enqClaims,
                   enqAt, enqDone, deqAt, deqDone, received>>
    /\ UNCHANGED pvars
    /\ UNCHANGED evars

\* The weak exchange fails although the index equals pos.
DeqCasSpurious(t) ==
    /\ pc[t] = "d_cas"
    /\ dequeue_index_ = pos[t]
    /\ pc' = [pc EXCEPT ![t] = "d_seq"]
    /\ UNCHANGED <<sequence, value, enqueue_index_, dequeue_index_, pos, arg,
                   out, ret, claimed, enqClaims, deqClaims, enqAt, enqDone,
                   deqAt, deqDone, received, seen>>
    /\ UNCHANGED pvars
    /\ UNCHANGED evars

DeqCas(t) == DeqCasStrong(t) \/ DeqCasSpurious(t)

\* Mutant: the value is moved out of the cell after the claimed one.
DeqMoveValueNextCell(t) ==
    /\ pc[t] = "d_move"
    /\ out' = [out EXCEPT ![t] = value[CellIndex(pos[t] + 1)]]
    /\ value' = [value EXCEPT ![CellIndex(pos[t] + 1)] = MovedFrom]
    /\ deqAt' = [deqAt EXCEPT ![claimed[t]] = value[CellIndex(pos[t] + 1)]]
    /\ pc' = [pc EXCEPT ![t] = "d_store"]
    /\ UNCHANGED <<sequence, enqueue_index_, dequeue_index_, pos, arg, ret,
                   claimed, enqClaims, deqClaims, enqAt, enqDone, deqDone,
                   received, seen>>
    /\ UNCHANGED pvars
    /\ UNCHANGED evars

\* value = std::move(cell.value).
DeqMoveValue(t) ==
    /\ pc[t] = "d_move"
    /\ out' = [out EXCEPT ![t] = value[CellIndex(pos[t])]]
    /\ value' = [value EXCEPT ![CellIndex(pos[t])] = MovedFrom]
    /\ deqAt' = [deqAt EXCEPT ![claimed[t]] = value[CellIndex(pos[t])]]
    /\ pc' = [pc EXCEPT ![t] = "d_store"]
    /\ UNCHANGED <<sequence, enqueue_index_, dequeue_index_, pos, arg, ret,
                   claimed, enqClaims, deqClaims, enqAt, enqDone, deqDone,
                   received, seen>>
    /\ UNCHANGED pvars
    /\ UNCHANGED evars

\* cell.sequence.store(pos + pool_mask_ + 1, release); return true.
DeqStoreSeq(t) ==
    /\ pc[t] = "d_store"
    /\ sequence' = [sequence EXCEPT ![CellIndex(pos[t])] = DeqPublish(pos[t])]
    /\ ret' = [ret EXCEPT ![t] = TRUE]
    /\ deqDone' = deqDone \cup {claimed[t]}
    /\ pc' = [pc EXCEPT ![t] = "d_ret"]
    /\ UNCHANGED <<value, enqueue_index_, dequeue_index_, pos, arg, out,
                   claimed, enqClaims, deqClaims, enqAt, enqDone, deqAt,
                   received, seen>>
    /\ UNCHANGED pvars
    /\ UNCHANGED evars

Dequeue(t) ==
    \/ DeqLoadSeq(t)
    \/ DeqCas(t)
    \/ DeqMoveValue(t)
    \/ DeqStoreSeq(t)

(***************************************************************************)
(* Clients of the bare queue: producers that enqueue their values in order *)
(* and retry while the queue is full, consumers that keep dequeuing        *)
(* (test/base-test/mpmc_queue_test.cc, MultiThreadedEnqueueDequeue).       *)
(***************************************************************************)
\* Values of producer t accepted so far.
Accepted(t) ==
    Cardinality({p \in Positions :
                    enqAt[p] \in {ValueOf(t, k) : k \in 1 .. MaxEnq}})

\* The locals of an operation that has returned are dead.
Forget(t) ==
    /\ pos' = [pos EXCEPT ![t] = 0]
    /\ arg' = [arg EXCEPT ![t] = DefaultValue]
    /\ ret' = [ret EXCEPT ![t] = FALSE]
    /\ claimed' = [claimed EXCEPT ![t] = 0]
    /\ seen' = [seen EXCEPT ![t] = NoSeen]

\* queue.enqueue(value): the call and its first load of enqueue_index_.
ProducerCall(t) ==
    /\ pc[t] = "idle"
    /\ Accepted(t) < MaxEnq
    /\ arg' = [arg EXCEPT ![t] = ValueOf(t, Accepted(t) + 1)]
    /\ pos' = [pos EXCEPT ![t] = enqueue_index_]
    /\ pc' = [pc EXCEPT ![t] = "e_seq"]
    /\ UNCHANGED <<sequence, value, enqueue_index_, dequeue_index_, out,
                   ret, claimed, enqClaims, deqClaims, enqAt, enqDone, deqAt,
                   deqDone, received, seen>>
    /\ UNCHANGED pvars
    /\ UNCHANGED evars

ProducerReturn(t) ==
    /\ pc[t] = "e_ret"
    /\ pc' = [pc EXCEPT ![t] = "idle"]
    /\ Forget(t)
    /\ UNCHANGED <<sequence, value, enqueue_index_, dequeue_index_, out,
                   enqClaims, deqClaims, enqAt, enqDone, deqAt, deqDone, received>>
    /\ UNCHANGED pvars
    /\ UNCHANGED evars

\* queue.dequeue(value): the call and its first load of dequeue_index_.
ConsumerCall(t) ==
    /\ pc[t] = "idle"
    /\ pos' = [pos EXCEPT ![t] = dequeue_index_]
    /\ pc' = [pc EXCEPT ![t] = "d_seq"]
    /\ UNCHANGED <<sequence, value, enqueue_index_, dequeue_index_, arg,
                   out, ret, claimed, enqClaims, deqClaims, enqAt, enqDone,
                   deqAt, deqDone, received, seen>>
    /\ UNCHANGED pvars
    /\ UNCHANGED evars

\* if (queue.dequeue(value)) the consumer keeps the value.
ConsumerReturn(t) ==
    /\ pc[t] = "d_ret"
    /\ pc' = [pc EXCEPT ![t] = "idle"]
    /\ received' = IF ret[t] THEN [received EXCEPT ![t] = Append(@, out[t])]
                   ELSE received
    /\ Forget(t)
    /\ UNCHANGED <<sequence, value, enqueue_index_, dequeue_index_, out,
                   enqClaims, deqClaims, enqAt, enqDone, deqAt, deqDone>>
    /\ UNCHANGED pvars
    /\ UNCHANGED evars

ThreadInit ==
    /\ pc = [t \in Threads |-> "idle"]
    /\ pos = [t \in Threads |-> 0]
    /\ arg = [t \in Threads |-> DefaultValue]
    /\ out = [t \in Threads |-> DefaultValue]
    /\ ret = [t \in Threads |-> FALSE]
    /\ claimed = [t \in Threads |-> 0]
    /\ received = [t \in Threads |-> <<>>]
    /\ seen = [t \in Threads |-> NoSeen]

\* No pool is constructed over the queue.
NoPool ==
    /\ state_ = "Initializing"
    /\ active_tasks_ = 0
    /\ strategy = "Passive"
    /\ notified_ = FALSE
    /\ spin_count_ = 0
    /\ spinv = [t \in Consumers |-> 0]
    /\ mpc = "none"
    /\ mi = 0
    /\ shutdowns = 0
    /\ calls = [t \in Producers |-> 0]
    /\ calledIn = [t \in Producers |-> "none"]
    /\ executed = [v \in Values |-> 0]
    /\ future = [v \in Values |-> NoValue]
    /\ submitted = {}
    /\ sawStopping = FALSE
    /\ drainSet = {}
    /\ atShutdown = {}

(***************************************************************************)
(* Channel<ValueType, MAX_SIZE> (channel.hpp): a std::queue under a mutex  *)
(* with one condition variable that senders and receivers share.  A call   *)
(* holds the mutex from its lock to its wait or its return, so each such   *)
(* stretch is one step.                                                    *)
(***************************************************************************)
Senders == 1 .. NumSenders
Receivers == (NumSenders + 1) .. (NumSenders + NumReceivers)
ChannelThreads == Senders \cup Receivers

\* std::nullopt, as an argument of send and as a result of receive.
Nullopt == 0
\* The k-th value sent is k.
Sendable == 1 .. MaxSends

\* What a call has returned: nothing yet, normally, by an exception, or
\* the bool of is_closed().
NoResult == -1
Sent == -2
ThrewClosed == -3
ThrewEmpty == -4
IsClosedTrue == -5
IsClosedFalse == -6

\* Channel(): _m_closed(false), an empty queue; no thread has called.
ChannelInit ==
    /\ m_queue = <<>>
    /\ m_closed = FALSE
    /\ cpc = [t \in ChannelThreads |-> "idle"]
    /\ cval = [t \in ChannelThreads |-> Nullopt]
    /\ cres = [t \in ChannelThreads |-> NoResult]
    /\ sends = 0
    /\ receives = 0
    /\ atClose = <<>>
    /\ sinceClose = <<>>

\* No sequential client runs, no other queue is being constructed, no
\* second thread calls shutdown() and the channel is not used.
NoExtras ==
    /\ ref = NoRef
    /\ ctor = NoCtor
    /\ second = NoSecond
    /\ notifies = NoNotifies
    /\ ChannelInit

QInit == QueueInit /\ ThreadInit /\ NoPool /\ NoExtras

QNext ==
    \/ \E t \in Producers : ProducerCall(t)
    \/ \E t \in Producers : Enqueue(t)
    \/ \E t \in Producers : ProducerReturn(t)
    \/ \E t \in Consumers : ConsumerCall(t)
    \/ \E t \in Consumers : Dequeue(t)
    \/ \E t \in Consumers : ConsumerReturn(t)

SpecQ == QInit /\ [][QNext]_vars

(***************************************************************************)
(* The calls on the channel.                                               *)
(***************************************************************************)
\* The threads blocked in _m_condition.wait.
Waiting(p) == {t \in ChannelThreads : p[t] \in {"s_wait", "r_wait"}}

\* A blocked thread is made runnable: it will take the mutex and evaluate
\* its predicate.
Wake(l) == IF l = "s_wait" THEN "s_woken"
           ELSE IF l = "r_wait" THEN "r_woken" ELSE l

\* _m_condition.notify_one(): one of the blocked threads, whichever.
NotifyOne(p) ==
    IF Waiting(p) = {} THEN {p}
    ELSE {[p EXCEPT ![w] = Wake(p[w])] : w \in Waiting(p)}

\* _m_condition.notify_all().
NotifyAll(p) == [t \in ChannelThreads |-> Wake(p[t])]

\* send past its wait, with the mutex held: the second test of _m_closed,
\* the test of value.has_value(), the push and notify_one.
SendBody(t, v) ==
    IF m_closed
    THEN /\ cres' = [cres EXCEPT ![t] = ThrewClosed]
         /\ cpc' = [cpc EXCEPT ![t] = "idle"]
         /\ UNCHANGED m_queue
    ELSE IF v = Nullopt
    THEN /\ cres' = [cres EXCEPT ![t] = ThrewEmpty]
         /\ cpc' = [cpc EXCEPT ![t] = "idle"]
         /\ UNCHANGED m_queue
    ELSE /\ m_queue' = Append(m_queue, v)
         /\ cres' = [cres EXCEPT ![t] = Sent]
         /\ cpc' \in NotifyOne([cpc EXCEPT ![t] = "idle"])

\* send(value): lock, if (_m_closed) throw, _m_condition.wait(lock, pred)
\* with pred = _m_queue.size() < MAX_SIZE || _m_closed; when pred holds the
\* body follows, otherwise the thread blocks and releases the mutex.
Send(t) ==
    /\ cpc[t] = "idle"
    /\ sends < MaxSends
    /\ sends' = sends + 1
    /\ \E v \in {Nullopt, sends + 1} :
           IF m_closed \/ Len(m_queue) < MAX_SIZE
           THEN /\ SendBody(t, v)
                /\ UNCHANGED cval
           ELSE /\ cpc' = [cpc EXCEPT ![t] = "s_wait"]
                /\ cval' = [cval EXCEPT ![t] = v]
                /\ cres' = [cres EXCEPT ![t] = NoResult]
                /\ UNCHANGED m_queue
    /\ UNCHANGED <<m_closed, receives, atClose, sinceClose>>
    /\ UNCHANGED <<qvars, pvars, ref, ctor, second, notifies>>

\* A sender that was woken has the mutex again and evaluates pred.
SendWake(t) ==
    /\ cpc[t] = "s_woken"
    /\ IF m_closed \/ Len(m_queue) < MAX_SIZE
       THEN /\ SendBody(t, cval[t])
            /\ cval' = [cval EXCEPT ![t] = Nullopt]
       ELSE /\ cpc' = [cpc EXCEPT ![t] = "s_wait"]
            /\ UNCHANGED <<m_queue, cval, cres>>
    /\ UNCHANGED <<m_closed, sends, receives, atClose, sinceClose>>
    /\ UNCHANGED <<qvars, pvars, ref, ctor, second, notifies>>

\* receive past its wait, with the mutex held: nullopt from an empty queue,
\* otherwise front, pop, notify_one.
ReceiveBody(t) ==
    IF m_queue = <<>>
    THEN /\ cres' = [cres EXCEPT ![t] = Nullopt]
         /\ cpc' = [cpc EXCEPT ![t] = "idle"]
         /\ sinceClose' = IF m_closed THEN Append(sinceClose, Nullopt)
                          ELSE sinceClose
         /\ UNCHANGED m_queue
    ELSE /\ cres' = [cres EXCEPT ![t] = Head(m_queue)]
         /\ m_queue' = Tail(m_queue)
         /\ cpc' \in NotifyOne([cpc EXCEPT ![t] = "idle"])
         /\ sinceClose' = IF m_closed THEN Append(sinceClose, Head(m_queue))
                          ELSE sinceClose

\* receive(): lock, _m_condition.wait(lock, pred) with
\* pred = !_m_queue.empty() || _m_closed.
Receive(t) ==
    /\ cpc[t] = "idle"
    /\ receives < MaxReceives
    /\ receives' = receives + 1
    /\ IF m_queue # <<>> \/ m_closed
       THEN ReceiveBody(t)
       ELSE /\ cpc' = [cpc EXCEPT ![t] = "r_wait"]
            /\ cres' = [cres EXCEPT ![t] = NoResult]
            /\ UNCHANGED <<m_queue, sinceClose>>
    /\ UNCHANGED <<m_closed, cval, sends, atClose>>
    /\ UNCHANGED <<qvars, pvars, ref, ctor, second, notifies>>

\* A receiver that was woken has the mutex again and evaluates pred.
ReceiveWake(t) ==
    /\ cpc[t] = "r_woken"
    /\ IF m_queue # <<>> \/ m_closed
       THEN ReceiveBody(t)
       ELSE /\ cpc' = [cpc EXCEPT ![t] = "r_wait"]
            /\ UNCHANGED <<m_queue, cres, sinceClose>>
    /\ UNCHANGED <<m_closed, cval, sends, receives, atClose>>
    /\ UNCHANGED <<qvars, pvars, ref, ctor, second, notifies>>

\* Mutant: close() wakes one blocked thread only.
CloseNotifyOne ==
    /\ m_closed' = TRUE
    /\ cpc' \in NotifyOne(cpc)
    /\ atClose' = IF m_closed THEN atClose ELSE m_queue
    /\ UNCHANGED <<m_queue, cval, cres, sends, receives, sinceClose>>
    /\ UNCHANGED <<qvars, pvars, ref, ctor, second, notifies>>

\* close(), by any thread: _m_closed = true; _m_condition.notify_all().
Close ==
    /\ m_closed' = TRUE
    /\ cpc' = NotifyAll(cpc)
    /\ atClose' = IF m_closed THEN atClose ELSE m_queue
    /\ UNCHANGED <<m_queue, cval, cres, sends, receives, sinceClose>>
    /\ UNCHANGED <<qvars, pvars, ref, ctor, second, notifies>>

\* is_closed(): return _m_closed, under the mutex.
IsClosed(t) ==
    /\ cpc[t] = "idle"
    /\ cres' = [cres EXCEPT ![t] = IF m_closed THEN IsClosedTrue
                                   ELSE IsClosedFalse]
    /\ UNCHANGED <<m_queue, m_closed, cpc, cval, sends, receives, atClose,
                   sinceClose>>
    /\ UNCHANGED <<qvars, pvars, ref, ctor, second, notifies>>

\* std::condition_variable::wait may wake without a notification.
SpuriousWakeup(t) ==
    /\ cpc[t] \in {"s_wait", "r_wait"}
    /\ cpc' = [cpc EXCEPT ![t] = Wake(cpc[t])]
    /\ UNCHANGED <<m_queue, m_closed, cval, cres, sends, receives, atClose,
                   sinceClose>>
    /\ UNCHANGED <<qvars, pvars, ref, ctor, second, notifies>>

ChannelNext ==
    \/ \E t \in Senders : Send(t)
    \/ \E t \in Senders : SendWake(t)
    \/ \E t \in Receivers : Receive(t)
    \/ \E t \in Receivers : ReceiveWake(t)
    \/ Close
    \/ \E t \in ChannelThreads : IsClosed(t)
    \/ \E t \in ChannelThreads : SpuriousWakeup(t)

SpecChannel == QInit /\ [][ChannelNext]_vars

(***************************************************************************)
(* MPMCQueue(queue_size) run on an arbitrary argument, one step per        *)
(* member initialiser and statement.  The members are initialised in the   *)
(* order of their declaration: pool_, then pool_mask_; the body follows.   *)
(***************************************************************************)
CellBytes == 2 ^ LogCellBytes

\* a & b on std::size_t.
RECURSIVE BitAnd(_, _)
BitAnd(a, b) ==
    IF a = 0 \/ b = 0 THEN 0
    ELSE (a % 2) * (b % 2) + 2 * BitAnd(a \div 2, b \div 2)

\* The call MPMCQueue(c) in a process that can still allocate mem bytes.
\* mask, enq and deq hold no value that is read before it is stored; n, eret
\* and dret record the calls made on the queue once it is constructed.
NewCall(c, mem) ==
    [at |-> "alloc", c |-> c, mem |-> mem, held |-> 0, seq |-> <<>>,
     mask |-> 0, i |-> 0, enq |-> 0, deq |-> 0,
     n |-> 0, eret |-> TRUE, dret |-> TRUE]

\* pool_(std::make_unique<Cell[]>(queue_size)): new Cell[queue_size]() throws
\* std::bad_array_new_length when the size in bytes does not fit std::size_t,
\* std::bad_alloc when the memory is not there, and value-initialises the
\* cells otherwise.
NewAllocate ==
    /\ ctor.at = "alloc"
    /\ LET bytes == ctor.c * CellBytes
       IN  ctor' = IF bytes >= Mod
                   THEN [ctor EXCEPT !.at = "bad_array_new_length"]
                   ELSE IF bytes > ctor.mem
                   THEN [ctor EXCEPT !.at = "bad_alloc"]
                   ELSE [ctor EXCEPT !.at = "mask",
                                     !.held = ctor.c,
                                     !.seq = [i \in 0 .. (ctor.c - 1) |-> 0]]
    /\ UNCHANGED <<qvars, pvars, ref, second, notifies, cvars>>

\* pool_mask_(queue_size - 1).
NewStoreMask ==
    /\ ctor.at = "mask"
    /\ ctor' = [ctor EXCEPT !.at = "check", !.mask = Wrap(ctor.c - 1)]
    /\ UNCHANGED <<qvars, pvars, ref, second, notifies, cvars>>

\* if (queue_size < 2 || (queue_size & pool_mask_) != 0) throw
\* std::invalid_argument: pool_ is destroyed and the cells are freed.
NewValidate ==
    /\ ctor.at = "check"
    /\ ctor' = IF ctor.c < 2 \/ BitAnd(ctor.c, ctor.mask) # 0
               THEN [ctor EXCEPT !.at = "invalid_argument",
                                 !.held = 0,
                                 !.seq = <<>>]
               ELSE [ctor EXCEPT !.at = "loop", !.i = 0]
    /\ UNCHANGED <<qvars, pvars, ref, second, notifies, cvars>>

\* Mutant: the sequences start at 1.
NewStoreSequenceFromOne ==
    /\ ctor.at = "loop"
    /\ ctor.i < ctor.c
    /\ ctor' = [ctor EXCEPT !.seq[ctor.i] = ctor.i + 1, !.i = ctor.i + 1]
    /\ UNCHANGED <<qvars, pvars, ref, second, notifies, cvars>>

\* pool_[i].sequence.store(i, relaxed); ++i.
NewStoreSequence ==
    /\ ctor.at = "loop"
    /\ ctor.i < ctor.c
    /\ ctor' = [ctor EXCEPT !.seq[ctor.i] = ctor.i, !.i = ctor.i + 1]
    /\ UNCHANGED <<qvars, pvars, ref, second, notifies, cvars>>

\* enqueue_index_.store(0, relaxed); dequeue_index_.store(0, relaxed).
NewStoreIndexes ==
    /\ ctor.at = "loop"
    /\ ctor.i >= ctor.c
    /\ ctor' = [ctor EXCEPT !.at = "done", !.enq = 0, !.deq = 0]
    /\ UNCHANGED <<qvars, pvars, ref, second, notifies, cvars>>

\* dequeue(value) run alone, start to end, on the queue q just constructed:
\* the cell of q.deq is read, and on diff = 0 the position is claimed and
\* the cell released.  (diff > 0 would reload an index nobody moves.)
DequeueAlone(q) ==
    LET p == q.deq
        cell == BitAnd(p, q.mask)
        diff == SignedDiff(q.seq[cell], Wrap(p + 1))
    IN  IF diff = 0
        THEN [q EXCEPT !.deq = Wrap(p + 1),
                       !.seq[cell] = Wrap(p + q.mask + 1),
                       !.dret = TRUE]
        ELSE IF diff < 0 THEN [q EXCEPT !.dret = FALSE]
        ELSE [q EXCEPT !.at = "spins"]

\* enqueue(value) run alone, start to end, on the queue q just constructed.
EnqueueAlone(q) ==
    LET p == q.enq
        cell == BitAnd(p, q.mask)
        diff == SignedDiff(q.seq[cell], p)
    IN  IF diff = 0
        THEN [q EXCEPT !.enq = Wrap(p + 1),
                       !.seq[cell] = Wrap(p + 1),
                       !.n = q.n + 1]
        ELSE IF diff < 0 THEN [q EXCEPT !.n = q.n + 1, !.eret = FALSE]
        ELSE [q EXCEPT !.at = "spins"]

\* The first call on the new queue is a dequeue.
NewFirstDequeue ==
    /\ ctor.at = "done"
    /\ ctor' = [DequeueAlone(ctor) EXCEPT
                   !.at = IF @ = "spins" THEN @ ELSE "probed"]
    /\ UNCHANGED <<qvars, pvars, ref, second, notifies, cvars>>

\* The first queue_size calls of enqueue on the new queue.
NewFirstEnqueues ==
    /\ ctor.at = "probed"
    /\ ctor' = IF ctor.n < ctor.c
               THEN EnqueueAlone(ctor)
               ELSE [ctor EXCEPT !.at = "filled"]
    /\ UNCHANGED <<qvars, pvars, ref, second, notifies, cvars>>

NewInit ==
    /\ QueueInit
    /\ ThreadInit
    /\ NoPool
    /\ ref = NoRef
    /\ second = NoSecond
    /\ notifies = NoNotifies
    /\ ChannelInit
    /\ ctor \in {NewCall(c, mem) : c \in 0 .. (Mod - 1), mem \in 0 .. (Mod - 1)}

NewNext ==
    \/ NewAllocate
    \/ NewStoreMask
    \/ NewValidate
    \/ NewStoreSequence
    \/ NewStoreIndexes
    \/ NewFirstDequeue
    \/ NewFirstEnqueues

SpecNew == NewInit /\ [][NewNext]_vars

\* The construction has ended, by a return or by an exception.
NewFinished ==
    ctor.at \in {"done", "probed", "filled", "invalid_argument", "bad_alloc",
                 "bad_array_new_length"}

\* The constructor has returned a queue.
Constructed == ctor.at \in {"done", "probed", "filled"}

IsPowerOfTwo(c) == \E k \in 0 .. (Width - 1) : c = 2 ^ k

\* C19: the construction ends with the invalid-capacity error exactly when
\* the capacity is below 2 or not a power of two, and a construction that
\* has failed holds no cell (a process that has run out of memory is left
\* aside).
C19_InvalidCapacityRejected ==
    (NewFinished /\ ctor.at # "bad_alloc") =>
        /\ (ctor.at = "invalid_argument")
               <=> (ctor.c < 2 \/ ~IsPowerOfTwo(ctor.c))
        /\ ~Constructed => ctor.held = 0

\* C22: right after the constructor has returned, both indexes are 0 and
\* the sequence of cell i is i, for every i below the capacity; the first
\* call of dequeue then returns false and the first queue_size calls of
\* enqueue return true.
C22_FreshQueue ==
    /\ ctor.at # "spins"
    /\ ctor.at = "done" =>
           /\ ctor.enq = 0
           /\ ctor.deq = 0
           /\ ctor.mask = ctor.c - 1
           /\ DOMAIN ctor.seq = 0 .. (ctor.c - 1)
           /\ \A i \in 0 .. (ctor.c - 1) : ctor.seq[i] = i
    /\ ctor.at \in {"probed", "filled"} =>
           /\ ctor.dret = FALSE
           /\ ctor.eret = TRUE
           /\ ctor.deq = 0
           /\ ctor.enq = Wrap(ctor.n)
    /\ ctor.at = "filled" => ctor.n = ctor.c

\* A queue of capacity 4 has refused a dequeue and then taken 4 elements.
C22_Witness ==
    /\ ctor.at = "filled"
    /\ ctor.c = 4
    /\ ctor.dret = FALSE
    /\ ctor.eret = TRUE
    /\ ctor.n = 4

(***************************************************************************)
(* A client that runs the queue one call at a time, by whichever thread    *)
(* (test/base-test/mpmc_queue_test.cc, EnqueueDequeueSingleThread,         *)
(* EnqueueFullReturnsFalse, DequeueEmptyReturnsFalse), next to a reference *)
(* bounded FIFO of the same capacity that is given the same calls.         *)
(***************************************************************************)
SeqValues == 1 .. MaxSeqValue

\* The reference bounded FIFO of capacity queue_size.
RefEnqueue(r, v) ==
    IF Len(r.q) < queue_size
    THEN [r EXCEPT !.q = Append(@, v), !.ret = TRUE]
    ELSE [r EXCEPT !.ret = FALSE]

RefDequeue(r) ==
    IF r.q # <<>>
    THEN [r EXCEPT !.q = Tail(@), !.ret = TRUE, !.out = Head(r.q)]
    ELSE [r EXCEPT !.ret = FALSE]

NoCallRuns == \A u \in Threads : pc[u] = "idle"

\* queue.enqueue(v), called while no other call runs.
SeqEnqueueCall(t) ==
    /\ NoCallRuns
    /\ enqClaims < MaxPos
    /\ \E v \in SeqValues :
           /\ arg' = [arg EXCEPT ![t] = v]
           /\ ref' = RefEnqueue(ref, v)
    /\ pos' = [pos EXCEPT ![t] = enqueue_index_]
    /\ pc' = [pc EXCEPT ![t] = "e_seq"]
    /\ UNCHANGED <<sequence, value, enqueue_index_, dequeue_index_, out,
                   ret, claimed, enqClaims, deqClaims, enqAt, enqDone, deqAt,
                   deqDone, received, seen>>
    /\ UNCHANGED <<pvars, ctor, second, notifies, cvars>>

\* queue.dequeue(out), called while no other call runs.
SeqDequeueCall(t) ==
    /\ NoCallRuns
    /\ ref' = RefDequeue(ref)
    /\ pos' = [pos EXCEPT ![t] = dequeue_index_]
    /\ pc' = [pc EXCEPT ![t] = "d_seq"]
    /\ UNCHANGED <<sequence, value, enqueue_index_, dequeue_index_, arg, out,
                   ret, claimed, enqClaims, deqClaims, enqAt, enqDone, deqAt,
                   deqDone, received, seen>>
    /\ UNCHANGED <<pvars, ctor, second, notifies, cvars>>

\* The call returns to the client.
SeqReturn(t) ==
    /\ pc[t] \in {"e_ret", "d_ret"}
    /\ pc' = [pc EXCEPT ![t] = "idle"]
    /\ Forget(t)
    /\ UNCHANGED <<sequence, value, enqueue_index_, dequeue_index_, out,
                   enqClaims, deqClaims, enqAt, enqDone, deqAt, deqDone,
                   received>>
    /\ UNCHANGED <<pvars, evars>>

SeqNext ==
    \/ \E t \in Threads : SeqEnqueueCall(t)
    \/ \E t \in Threads : SeqDequeueCall(t)
    \/ \E t \in Threads : Enqueue(t)
    \/ \E t \in Threads : Dequeue(t)
    \/ \E t \in Threads : SeqReturn(t)

SpecSeq == QInit /\ [][SeqNext]_vars

\* C11: run by one thread at a time, every enqueue and dequeue call returns
\* what the reference bounded FIFO of capacity queue_size returns for the
\* same call, and a successful dequeue yields the reference's value.
C11_SameAsReference ==
    \A t \in Threads :
        /\ pc[t] = "e_ret" => ret[t] = ref.ret
        /\ pc[t] = "d_ret" =>
               /\ ret[t] = ref.ret
               /\ ret[t] => out[t] = ref.out

\* C11 witness: the dequeue of position queue_size (it wraps to the first
\* cell) has returned the reference's value.
C11_Witness ==
    \E t \in Threads :
        /\ pc[t] = "d_ret"
        /\ ret[t]
        /\ out[t] = ref.out
        /\ deqClaims = queue_size + 1

(***************************************************************************)
(* Properties of the bare queue, checked under SpecQ.                      *)
(***************************************************************************)
AllReceived == {<<c, i>> \in Consumers \X (1 .. MaxPos) : i <= Len(received[c])}

\* How many successful dequeue calls returned v.
DequeuedCount(v) ==
    Cardinality({ci \in AllReceived : received[ci[1]][ci[2]] = v})

\* How many successful enqueue calls were given v.
EnqueuedCount(v) == Cardinality({p \in enqDone : enqAt[p] = v})

\* Every operation has returned and the queue is drained.
Quiescent ==
    /\ \A t \in Threads : pc[t] = "idle"
    /\ enqueue_index_ = dequeue_index_

AnyValue == Values \cup {DefaultValue, MovedFrom, NoValue}

\* C1: once all operations have returned and the queue has been drained, the
\* multiset of values returned by successful dequeue calls equals the multiset
\* of values accepted by successful enqueue calls.
C1_MultisetPreserved ==
    Quiescent => \A v \in AnyValue : DequeuedCount(v) = EnqueuedCount(v)

\* C1 witness: a drained queue after every value was accepted, both consumers
\* having dequeued some of them.
C1_Witness ==
    /\ Quiescent
    /\ Cardinality(enqDone) = MaxPos
    /\ \A c \in Consumers : Len(received[c]) > 0

\* C2: the value moved out by the dequeue that claimed logical position p is
\* the value written by the enqueue that claimed p, and that enqueue had
\* finished.
C2_PerPositionFifo ==
    \A p \in Positions :
        deqAt[p] # NoValue => (p \in enqDone /\ deqAt[p] = enqAt[p])

\* C2 witness: every position was dequeued and the producers' values are
\* interleaved across positions.
C2_Witness ==
    /\ \A p \in Positions : deqAt[p] \in Values
    /\ deqAt[0] = ValueOf(2, 1)
    /\ deqAt[1] = ValueOf(1, 1)

ProducerOf(v) == v \div 10
IndexOf(v) == v % 10

\* C3: each consumer receives the values of one producer in the order that
\* producer enqueued them.
C3_ProducerOrderKept ==
    \A c \in Consumers :
        \A i, j \in 1 .. Len(received[c]) :
            (i < j /\ ProducerOf(received[c][i]) = ProducerOf(received[c][j]))
                => IndexOf(received[c][i]) < IndexOf(received[c][j])

\* C3 witness: one consumer got both values of producer 1 with a value of
\* producer 2 between them.
C3_Witness ==
    \E c \in Consumers :
        /\ Len(received[c]) >= 3
        /\ received[c][1] = ValueOf(1, 1)
        /\ ProducerOf(received[c][2]) = 2
        /\ received[c][3] = ValueOf(1, 2)

\* C9 as claimed: enqueue returns false exactly when
\* enqueue_pos - dequeue_pos = queue_size at its deciding step.
C9_FalseIffGapIsN ==
    \A t \in Producers :
        pc[t] = "e_ret" => (ret[t] = FALSE <=> seen[t].n = queue_size)

\* C9 amended: enqueue returns false exactly when the cell of its position is
\* not free (the dequeue of the position queue_size earlier has not stored the
\* cell's sequence); it returns false whenever the gap is queue_size and never
\* returns true then.
C9_FalseIffCellHeld ==
    \A t \in Producers :
        pc[t] = "e_ret" =>
            /\ ret[t] = FALSE <=> ~seen[t].ok
            /\ seen[t].n = queue_size => ret[t] = FALSE
            /\ seen[t].n \in 0 .. queue_size

\* C9 witness: an enqueue has returned false while fewer than queue_size
\* positions were unclaimed by dequeues (a dequeue was in flight).
C9_Witness ==
    \E t \in Producers :
        /\ pc[t] = "e_ret"
        /\ ret[t] = FALSE
        /\ seen[t].n < queue_size

\* C10 as claimed: dequeue returns false exactly when no element whose
\* enqueue has returned true is unconsumed.
C10_FalseIffNoneUnconsumed ==
    \A t \in Consumers :
        pc[t] = "d_ret" => (ret[t] = FALSE <=> seen[t].n = 0)

\* C10 amended: dequeue returns false exactly when the element of its
\* position is not published (no enqueue of that position has stored the
\* cell's sequence); it never returns true when no enqueued element is
\* unconsumed.
C10_FalseIffNotPublished ==
    \A t \in Consumers :
        pc[t] = "d_ret" =>
            /\ ret[t] = FALSE <=> ~seen[t].ok
            /\ ret[t] = TRUE => seen[t].n >= 1
            /\ seen[t].n = 0 => ret[t] = FALSE

\* C10 witness: a dequeue has returned false while an element whose enqueue
\* had returned true was unconsumed (at a later position).
C10_Witness ==
    \E t \in Consumers :
        /\ pc[t] = "d_ret"
        /\ ret[t] = FALSE
        /\ seen[t].n >= 1

\* The index a call of t competes for, and whether t runs an enqueue.
InEnqueue(t) == pc[t] \in {"e_seq", "e_cas", "e_write", "e_store", "e_ret"}

ContendedIndex(t) == IF InEnqueue(t) THEN enqueue_index_ ELSE dequeue_index_

\* t is about to take the reload branch (diff > 0) of its loop.
SeqRetry(t) ==
    \/ /\ pc[t] = "e_seq"
       /\ SignedDiff(sequence[CellIndex(pos[t])], pos[t]) > 0
    \/ /\ pc[t] = "d_seq"
       /\ SignedDiff(sequence[CellIndex(pos[t])], DeqExpect(pos[t])) > 0

\* A step in which the compare-exchange of t fails and its loop restarts.
CasRetry(t) ==
    \/ pc[t] = "e_cas" /\ pc'[t] = "e_seq"
    \/ pc[t] = "d_cas" /\ pc'[t] = "d_seq"

\* The steps of thread t inside a call.
OwnStep(t) == Enqueue(t) \/ Dequeue(t)

OwnCasStrong(t) == EnqCasStrong(t) \/ DeqCasStrong(t)

Returned(t) == pc[t] \in {"e_ret", "d_ret"}

\* C12 as stated, its last clause: the loop of a call restarts only when
\* the index has moved away from the position the call holds, that is when
\* another thread's operation has advanced it.
C12_RetryOnlyAfterAdvance ==
    [][\A t \in Threads : CasRetry(t) => ContendedIndex(t) # pos[t]]_vars

\* C12: a call that keeps taking its own steps, and whose weak
\* compare-exchange does not fail spuriously for ever, returns, whatever
\* the other threads do, stopping at any point of their calls included; the
\* reload branch of the loop is taken only when the index has moved past the
\* position held, while a failed compare-exchange restarts the loop either
\* for that reason or spuriously.
C12_NonBlocking ==
    /\ [](\A t \in Threads : SeqRetry(t) => ContendedIndex(t) # pos[t])
    /\ \A t \in Threads :
           (WF_vars(OwnStep(t)) /\ SF_vars(OwnCasStrong(t)))
               => ((pc[t] # "idle") ~> Returned(t))

\* A call has returned while another thread stays between its claim of a
\* position and the store of the cell's sequence.
C12_Witness ==
    \E t, u \in Threads :
        /\ t # u
        /\ Returned(t)
        /\ pc[u] \in {"e_write", "e_store", "d_move", "d_store"}

\* C21: in every state the enqueue index is ahead of the dequeue index by
\* at least 0 and at most queue_size, as indexes and as counts of the
\* positions claimed.
C21_GapWithinCapacity ==
    /\ Gap \in 0 .. queue_size
    /\ enqClaims - deqClaims \in 0 .. queue_size
    /\ enqueue_index_ = Wrap(enqClaims)
    /\ dequeue_index_ = Wrap(deqClaims)

\* The ring has been gone round: every cell is claimed again after a
\* dequeue, with calls of both kinds under way.
C21_Witness ==
    /\ Gap = queue_size
    /\ deqClaims >= 1
    /\ \E t \in Producers : pc[t] = "e_seq"
    /\ \E t \in Consumers : pc[t] = "d_seq"

\* t has claimed a position and not yet stored the sequence of its cell.
HoldsEnqueue(t) == pc[t] \in {"e_write", "e_store"}

HoldsDequeue(t) == pc[t] \in {"d_move", "d_store"}

\* C23: each position is claimed by at most one enqueue and by at most one
\* dequeue.  The position a call claims is the number of claims made before
\* it, so no earlier call has claimed it; two calls that hold a claim of the
\* same kind hold different positions.
C23_OneClaimantPerPosition ==
    /\ [](\A t \in Threads :
             /\ HoldsEnqueue(t) =>
                    /\ pos[t] = Wrap(claimed[t])
                    /\ claimed[t] < enqClaims
                    /\ \A u \in Threads \ {t} :
                           HoldsEnqueue(u) => pos[u] # pos[t]
             /\ HoldsDequeue(t) =>
                    /\ pos[t] = Wrap(claimed[t])
                    /\ claimed[t] < deqClaims
                    /\ \A u \in Threads \ {t} :
                           HoldsDequeue(u) => pos[u] # pos[t])
    /\ [][\A t \in Threads :
              /\ (pc[t] = "e_cas" /\ pc'[t] = "e_write") =>
                     /\ pos[t] = Wrap(enqClaims)
                     /\ enqClaims' = enqClaims + 1
              /\ (pc[t] = "d_cas" /\ pc'[t] = "d_move") =>
                     /\ pos[t] = Wrap(deqClaims)
                     /\ deqClaims' = deqClaims + 1]_vars

\* A producer and a consumer each hold a position that another thread is
\* about to try to claim with the same value of pos.
C23_Witness ==
    /\ \E t, u \in Producers :
           HoldsEnqueue(t) /\ pc[u] = "e_cas" /\ pos[u] = pos[t]
    /\ \E t, u \in Consumers :
           HoldsDequeue(t) /\ pc[u] = "d_cas" /\ pos[u] = pos[t]

\* The positions of cell c whose enqueue (dequeue) has stored the sequence.
EnqueuedInto(c) == {p \in enqDone : CellIndex(p) = c}

DequeuedFrom(c) == {p \in deqDone : CellIndex(p) = c}

\* The greatest element of a non-empty set of positions.
Last(S) == CHOOSE p \in S : \A q \in S : q <= p

\* No call holds a claim on cell c.
CellAtRest(c) ==
    \A t \in Threads :
        (HoldsEnqueue(t) \/ HoldsDequeue(t)) => CellIndex(pos[t]) # c

\* What the protocol leaves in cell c after the operations completed on it:
\* its index after none, p + 1 after the enqueue of p, p + queue_size after
\* the dequeue of p.
SequenceDue(c) ==
    IF EnqueuedInto(c) = {} THEN c
    ELSE IF Last(EnqueuedInto(c)) \in deqDone
         THEN Wrap(Last(EnqueuedInto(c)) + queue_size)
         ELSE Wrap(Last(EnqueuedInto(c)) + 1)

\* C24: the sequence of a cell on which no call holds a claim is the one
\* the last operation completed on it has stored (and the cell's index when
\* there was none); the dequeues completed on a cell are of positions whose
\* enqueue is completed; no step lowers the sequence of a cell, and a step
\* that changes it adds 1 (an enqueue) or queue_size - 1 (a dequeue).
C24_SequenceProtocol ==
    /\ [](\A c \in DOMAIN sequence :
             /\ DequeuedFrom(c) \subseteq EnqueuedInto(c)
             /\ CellAtRest(c) => sequence[c] = SequenceDue(c)
             /\ CellIndex(sequence[c]) \in {c, CellIndex(c + 1)})
    /\ [][\A c \in DOMAIN sequence :
              /\ sequence'[c] >= sequence[c]
              /\ sequence'[c] # sequence[c] =>
                     sequence'[c] - sequence[c] \in {1, queue_size - 1}]_vars

\* Both cells are in their second round and at rest: the enqueue of
\* position queue_size was the last operation on cell 0, the dequeue of
\* position 1 the last on cell 1.
C24_Witness ==
    /\ \A c \in DOMAIN sequence : CellAtRest(c)
    /\ sequence[0] = queue_size + 1
    /\ sequence[1] = 1 + queue_size
    /\ Last(EnqueuedInto(0)) = queue_size
    /\ Last(DequeuedFrom(1)) = 1
    /\ queue_size \notin deqDone

\* t holds a claim, of either kind, on cell c: from its exchange to its
\* store of the sequence it is the thread that accesses the value slot.
HoldsCell(t, c) ==
    (HoldsEnqueue(t) \/ HoldsDequeue(t)) /\ CellIndex(pos[t]) = c

\* C25: no two threads hold the value slot of a cell at once; a consumer
\* holds the slot of position p only after the producer of p has written the
\* value and stored the sequence, and moves out what that producer wrote; a
\* producer holds the slot of position p + queue_size only after the consumer
\* of p has moved the value out and stored the sequence.
C25_SlotAccessExclusive ==
    /\ \A c \in DOMAIN value :
           \A t, u \in Threads : (HoldsCell(t, c) /\ HoldsCell(u, c)) => t = u
    /\ \A t \in Threads :
           /\ HoldsDequeue(t) =>
                  /\ claimed[t] \in enqDone
                  /\ pc[t] = "d_move" =>
                         value[CellIndex(pos[t])] = enqAt[claimed[t]]
           /\ (HoldsEnqueue(t) /\ claimed[t] >= queue_size) =>
                  /\ (claimed[t] - queue_size) \in deqDone
                  /\ pc[t] = "e_write" =>
                         value[CellIndex(pos[t])] = MovedFrom

\* A producer is about to write the slot of cell 0 for the second time, the
\* consumer of position 0 having released it, while a consumer is about to
\* move the value out of cell 1.
C25_Witness ==
    \E t \in Producers, u \in Consumers :
        /\ pc[t] = "e_write"
        /\ claimed[t] = queue_size
        /\ pc[u] = "d_move"
        /\ claimed[u] = 1

\* No call holds a claim: every position claimed has had its sequence
\* stored.
NoClaimHeld == \A t \in Threads : ~HoldsEnqueue(t) /\ ~HoldsDequeue(t)

\* C26 as stated: with no call under way, the queue is empty exactly when no
\* cell has the sequence dequeue_pos + 1, and full exactly when no cell has
\* the sequence enqueue_pos.
C26_EmptyFullByAnyCell ==
    NoCallRuns =>
        /\ Gap = 0 <=>
               ~\E c \in DOMAIN sequence :
                   sequence[c] = Wrap(dequeue_index_ + 1)
        /\ Gap = queue_size <=>
               ~\E c \in DOMAIN sequence : sequence[c] = enqueue_index_

\* C26: with no claim held, the queue is empty exactly when the cell of the
\* dequeue position does not have the sequence dequeue_pos + 1, and full
\* exactly when the cell of the enqueue position does not have the sequence
\* enqueue_pos.
C26_EmptyFullByIndexedCell ==
    NoClaimHeld =>
        /\ Gap = 0 <=>
               sequence[CellIndex(dequeue_index_)] # Wrap(dequeue_index_ + 1)
        /\ Gap = queue_size <=>
               sequence[CellIndex(enqueue_index_)] # enqueue_index_
        /\ Gap = Unconsumed

\* The queue is full in its second round and nothing is under way.
C26_Witness ==
    /\ NoCallRuns
    /\ Gap = queue_size
    /\ deqClaims >= 1
    /\ sequence[CellIndex(enqueue_index_)] # enqueue_index_
    /\ \E c \in DOMAIN sequence : sequence[c] = enqueue_index_

(***************************************************************************)
(* ThreadPool<PoolSize, Meta, WaitStrategy> over the queue.  The consumers *)
(* are the pool's workers, the producers are threads that call submit, and *)
(* one more thread constructs the pool and calls shutdown().               *)
(***************************************************************************)
Strategies == {"Passive", "SpinBackOff", "Atomic", "ConditionVariable"}

\* The strategies whose wait() blocks on notified_.
Signalling == strategy \in {"Atomic", "ConditionVariable"}

\* workers_[i - 1].
WorkerAt(i) == NumProducers + i

\* The workers blocked inside wait().
Blocked == {w \in Consumers : pc[w] = "w_blocked"}

\* The callables that raise instead of returning: the second one of each
\* submitter.
Throws(v) == v % 10 = 2

\* What the shared state of a handle holds when the callable has raised.
Raised == NoValue - 1

\* What running the callable of envelope v leaves in its future: the
\* packaged_task stores the value returned or the exception raised.
ResultOf(v) == IF Throws(v) THEN Raised ELSE v + 100

\* The submit calls made so far, over all submitters.
TotalCalls ==
    LET sum[t \in 0 .. NumSubmitters] ==
            IF t = 0 THEN 0 ELSE calls[t] + sum[t - 1]
    IN  sum[NumSubmitters]

qstate == <<sequence, value, enqueue_index_, dequeue_index_, enqClaims,
            deqClaims, enqAt, enqDone, deqAt, deqDone, received>>
locals == <<pos, arg, out, ret, claimed, seen>>
phist == <<shutdowns, calls, calledIn, submitted, sawStopping, drainSet,
           atShutdown>>

\* The members as the constructor leaves them before launch_all_workers().
PoolMembers ==
    /\ QueueInit
    /\ pc = [t \in Threads |-> IF t \in Consumers THEN "unborn" ELSE "idle"]
    /\ pos = [t \in Threads |-> 0]
    /\ arg = [t \in Threads |-> DefaultValue]
    /\ out = [t \in Threads |-> DefaultValue]
    /\ ret = [t \in Threads |-> FALSE]
    /\ claimed = [t \in Threads |-> 0]
    /\ received = [t \in Threads |-> <<>>]
    /\ seen = [t \in Threads |-> NoSeen]
    /\ state_ = "Initializing"
    /\ active_tasks_ = 0
    /\ strategy \in Strategies
    /\ notified_ = FALSE
    /\ spin_count_ = 0
    /\ spinv = [t \in Consumers |-> 0]
    /\ mpc = "launch"
    /\ mi = 0
    /\ shutdowns = 0
    /\ calls = [t \in Producers |-> 0]
    /\ calledIn = [t \in Producers |-> "none"]
    /\ executed = [v \in Values |-> 0]
    /\ future = [v \in Values |-> NoValue]
    /\ submitted = {}
    /\ sawStopping = FALSE
    /\ drainSet = {}
    /\ atShutdown = {}

PoolInit == PoolMembers /\ NoExtras

(***************************************************************************)
(* ThreadPool(task_queue) and shutdown(), run by the owner of the pool.    *)
(***************************************************************************)
\* launch_all_workers(): workers_[i] = std::thread(worker_thread).
LaunchWorker ==
    /\ mpc = "launch"
    /\ mi < NumConsumers
    /\ pc' = [pc EXCEPT ![WorkerAt(mi + 1)] = "w_loop"]
    /\ mi' = mi + 1
    /\ UNCHANGED <<qstate, locals, state_, active_tasks_, strategy, notified_,
                   spin_count_, spinv, mpc, executed, future, phist>>
    /\ UNCHANGED evars

\* workers_[i] = std::thread(...) throws std::system_error: the exception
\* leaves launch_all_workers() and the constructor, whose members are then
\* destroyed.  No thread was started: the caller gets the exception.  Some
\* were: the destructor of a joinable std::thread calls std::terminate(),
\* which ends the process with its workers wherever they are.
LaunchFail ==
    /\ mpc = "launch"
    /\ mi < NumConsumers
    /\ IF mi = 0
       THEN /\ mpc' = "ctor_threw"
            /\ UNCHANGED pc
       ELSE /\ mpc' = "terminated"
            /\ pc' = [t \in Threads |->
                          IF t \in Consumers /\ pc[t] # "unborn"
                          THEN "killed" ELSE pc[t]]
    /\ UNCHANGED <<qstate, locals, state_, active_tasks_, strategy, notified_,
                   spin_count_, spinv, mi, executed, future, phist>>
    /\ UNCHANGED evars

\* state_.store(State::Running, release): the constructor's last statement.
StoreRunning ==
    /\ mpc = "launch"
    /\ mi = NumConsumers
    /\ state_' = "Running"
    /\ mpc' = "ready"
    /\ mi' = 0
    /\ UNCHANGED <<qstate, locals, pc, active_tasks_, strategy, notified_,
                   spin_count_, spinv, executed, future, phist>>
    /\ UNCHANGED evars

\* Mutant: shutdown() proceeds without looking at state_.
ShutdownCallUnchecked ==
    /\ mpc = "ready"
    /\ shutdowns < MaxShutdowns
    /\ shutdowns' = shutdowns + 1
    /\ atShutdown' = IF shutdowns = 0 THEN submitted ELSE atShutdown
    /\ mpc' = "sd_store"
    /\ UNCHANGED <<qstate, locals, pc, state_, active_tasks_, strategy,
                   notified_, spin_count_, spinv, mi, executed, future, calls,
                   calledIn, submitted, sawStopping, drainSet>>
    /\ UNCHANGED evars

\* shutdown(): if (state_.load() != Running) return.
ShutdownCall ==
    /\ mpc = "ready"
    /\ shutdowns < MaxShutdowns
    /\ shutdowns' = shutdowns + 1
    /\ atShutdown' = IF shutdowns = 0 THEN submitted ELSE atShutdown
    /\ mpc' = IF state_ # "Running" THEN "ready" ELSE "sd_store"
    /\ UNCHANGED <<qstate, locals, pc, state_, active_tasks_, strategy,
                   notified_, spin_count_, spinv, mi, executed, future, calls,
                   calledIn, submitted, sawStopping, drainSet>>
    /\ UNCHANGED evars

\* state_.store(State::Stopping, release).
ShutdownStoreStopping ==
    /\ mpc = "sd_store"
    /\ state_' = "Stopping"
    /\ mpc' = "sd_notify"
    /\ UNCHANGED <<qstate, locals, pc, active_tasks_, strategy, notified_,
                   spin_count_, spinv, mi, executed, future, phist>>
    /\ UNCHANGED evars

\* wait_strategy_->notify_all(): a no-op of the polling strategies, the
\* store of notified_ of AtomicWaitStrategy, the whole locked body of
\* ConditionVariableWaitStrategy.
ShutdownNotifyAll ==
    /\ mpc = "sd_notify"
    /\ \/ /\ ~Signalling
          /\ mpc' = "sd_join"
          /\ UNCHANGED <<notified_, pc>>
       \/ /\ strategy = "Atomic"
          /\ notified_' = TRUE
          /\ mpc' = "sd_wake"
          /\ UNCHANGED pc
       \/ /\ strategy = "ConditionVariable"
          /\ notified_' = TRUE
          /\ pc' = [t \in Threads |-> IF t \in Blocked THEN "w_wait" ELSE pc[t]]
          /\ mpc' = "sd_join"
    /\ UNCHANGED <<qstate, locals, state_, active_tasks_, strategy,
                   spin_count_, spinv, mi, executed, future, phist>>
    /\ UNCHANGED evars

\* AtomicWaitStrategy::notify_all(): notified_.notify_all().
ShutdownWakeAll ==
    /\ mpc = "sd_wake"
    /\ pc' = [t \in Threads |-> IF t \in Blocked THEN "w_wait" ELSE pc[t]]
    /\ mpc' = "sd_join"
    /\ UNCHANGED <<qstate, locals, state_, active_tasks_, strategy, notified_,
                   spin_count_, spinv, mi, executed, future, phist>>
    /\ UNCHANGED evars

\* Mutant: the workers are detached instead of joined.
ShutdownDetach ==
    /\ mpc = "sd_join"
    /\ mi < NumConsumers
    /\ mi' = mi + 1
    /\ UNCHANGED <<qstate, locals, pc, state_, active_tasks_, strategy,
                   notified_, spin_count_, spinv, mpc, executed, future,
                   phist>>
    /\ UNCHANGED evars

\* for (auto &worker : workers_) if (worker.joinable()) worker.join().
ShutdownJoin ==
    /\ mpc = "sd_join"
    /\ mi < NumConsumers
    /\ pc[WorkerAt(mi + 1)] = "exited"
    /\ mi' = mi + 1
    /\ UNCHANGED <<qstate, locals, pc, state_, active_tasks_, strategy,
                   notified_, spin_count_, spinv, mpc, executed, future,
                   phist>>
    /\ UNCHANGED evars

\* state_.store(State::Stopped, release).
ShutdownStoreStopped ==
    /\ mpc = "sd_join"
    /\ mi = NumConsumers
    /\ state_' = "Stopped"
    /\ mpc' = "ready"
    /\ mi' = 0
    /\ UNCHANGED <<qstate, locals, pc, active_tasks_, strategy, notified_,
                   spin_count_, spinv, executed, future, phist>>
    /\ UNCHANGED evars

Shutdown ==
    \/ ShutdownStoreStopping
    \/ ShutdownNotifyAll
    \/ ShutdownWakeAll
    \/ ShutdownJoin
    \/ ShutdownStoreStopped

(***************************************************************************)
(* shutdown() called by a second thread (another owner of the pool, or the *)
(* destructor) while the first caller may be anywhere in its own call.     *)
(***************************************************************************)
\* The pool has been constructed: its methods can be called.
PoolConstructed == mpc \notin {"none", "launch", "ctor_threw", "terminated"}

\* shutdown(): if (state_.load() != Running) return.
SecondShutdownCall ==
    /\ second.pc = "idle"
    /\ PoolConstructed
    /\ second' = [second EXCEPT
                     !.pc = IF state_ # "Running" THEN "returned"
                            ELSE "sd_store"]
    /\ UNCHANGED <<qvars, pvars, ref, ctor, notifies, cvars>>

\* state_.store(State::Stopping, release).
SecondStoreStopping ==
    /\ second.pc = "sd_store"
    /\ state_' = "Stopping"
    /\ second' = [second EXCEPT !.pc = "sd_notify"]
    /\ UNCHANGED <<qstate, locals, pc, active_tasks_, strategy, notified_,
                   spin_count_, spinv, mpc, mi, executed, future, phist, ref,
                   ctor, notifies, cvars>>

\* wait_strategy_->notify_all(), as in ShutdownNotifyAll.
SecondNotifyAll ==
    /\ second.pc = "sd_notify"
    /\ \/ /\ ~Signalling
          /\ second' = [second EXCEPT !.pc = "sd_join"]
          /\ UNCHANGED <<notified_, pc>>
       \/ /\ strategy = "Atomic"
          /\ notified_' = TRUE
          /\ second' = [second EXCEPT !.pc = "sd_wake"]
          /\ UNCHANGED pc
       \/ /\ strategy = "ConditionVariable"
          /\ notified_' = TRUE
          /\ pc' = [t \in Threads |-> IF t \in Blocked THEN "w_wait" ELSE pc[t]]
          /\ second' = [second EXCEPT !.pc = "sd_join"]
    /\ UNCHANGED <<qstate, locals, state_, active_tasks_, strategy,
                   spin_count_, spinv, mpc, mi, executed, future, phist, ref,
                   ctor, notifies, cvars>>

\* AtomicWaitStrategy::notify_all(): notified_.notify_all().
SecondWakeAll ==
    /\ second.pc = "sd_wake"
    /\ pc' = [t \in Threads |-> IF t \in Blocked THEN "w_wait" ELSE pc[t]]
    /\ second' = [second EXCEPT !.pc = "sd_join"]
    /\ UNCHANGED <<qstate, locals, state_, active_tasks_, strategy, notified_,
                   spin_count_, spinv, mpc, mi, executed, future, phist, ref,
                   ctor, notifies, cvars>>

\* if (worker.joinable()) worker.join(): the worker has been joined by the
\* other caller (and so has exited), or this join waits for its exit.
SecondJoin ==
    /\ second.pc = "sd_join"
    /\ second.i < NumConsumers
    /\ pc[WorkerAt(second.i + 1)] = "exited"
    /\ second' = [second EXCEPT !.i = second.i + 1]
    /\ UNCHANGED <<qvars, pvars, ref, ctor, notifies, cvars>>

\* state_.store(State::Stopped, release).
SecondStoreStopped ==
    /\ second.pc = "sd_join"
    /\ second.i = NumConsumers
    /\ state_' = "Stopped"
    /\ second' = [second EXCEPT !.pc = "returned"]
    /\ UNCHANGED <<qstate, locals, pc, active_tasks_, strategy, notified_,
                   spin_count_, spinv, mpc, mi, executed, future, phist, ref,
                   ctor, notifies, cvars>>

\* Both callers are inside join() of the same std::thread, which has not
\* finished: the behaviour is undefined.  Either join may go on waiting (the
\* steps above) or throw std::system_error out of shutdown().
JoinRace ==
    /\ mpc = "sd_join"
    /\ second.pc = "sd_join"
    /\ mi = second.i
    /\ mi < NumConsumers
    /\ pc[WorkerAt(mi + 1)] # "exited"
    /\ \/ /\ mpc' = "sd_threw"
          /\ UNCHANGED second
       \/ /\ second' = [second EXCEPT !.pc = "threw"]
          /\ UNCHANGED mpc
    /\ UNCHANGED <<qstate, locals, pc, state_, active_tasks_, strategy,
                   notified_, spin_count_, spinv, mi, executed, future, phist,
                   ref, ctor, notifies, cvars>>

SecondShutdown ==
    \/ SecondShutdownCall
    \/ SecondStoreStopping
    \/ SecondNotifyAll
    \/ SecondWakeAll
    \/ SecondJoin
    \/ SecondStoreStopped

(***************************************************************************)
(* submit(ctx, func), run by a submitter.                                  *)
(***************************************************************************)
\* The envelope is built and task_queue_->enqueue(std::move(task)) is called
\* (with its first load of enqueue_index_); state_ is not read.
SubmitCall(t) ==
    /\ pc[t] = "idle"
    /\ PoolConstructed
    /\ TotalCalls < MaxSubmits
    /\ calls' = [calls EXCEPT ![t] = @ + 1]
    /\ calledIn' = [calledIn EXCEPT ![t] = state_]
    /\ arg' = [arg EXCEPT ![t] = ValueOf(t, calls[t] + 1)]
    /\ pos' = [pos EXCEPT ![t] = enqueue_index_]
    /\ pc' = [pc EXCEPT ![t] = "e_seq"]
    /\ UNCHANGED <<qstate, out, ret, claimed, seen, state_, active_tasks_,
                   strategy, notified_, spin_count_, spinv, mpc, mi, executed,
                   future, shutdowns, submitted, sawStopping, drainSet,
                   atShutdown>>
    /\ UNCHANGED evars

\* Mutant: notify() is called before the result of enqueue is looked at.
SubmitNotifyThenThrow(t) ==
    /\ pc[t] = "e_ret"
    /\ ~ret[t]
    /\ notified_' = IF Signalling THEN TRUE ELSE notified_
    /\ pc' = [pc EXCEPT ![t] = "idle"]
    /\ calledIn' = [calledIn EXCEPT ![t] = "none"]
    /\ Forget(t)
    /\ UNCHANGED <<qstate, out, state_, active_tasks_, strategy, spin_count_,
                   spinv, mpc, mi, executed, future, shutdowns, calls,
                   submitted, sawStopping, drainSet, atShutdown>>
    /\ notifies' = [notifies EXCEPT ![t] = @ + 1]
    /\ UNCHANGED <<ref, ctor, second, cvars>>

\* enqueue returned false: throw std::runtime_error("Failed to enqueue task").
SubmitThrow(t) ==
    /\ pc[t] = "e_ret"
    /\ ~ret[t]
    /\ pc' = [pc EXCEPT ![t] = "idle"]
    /\ calledIn' = [calledIn EXCEPT ![t] = "none"]
    /\ Forget(t)
    /\ UNCHANGED <<qstate, out, state_, active_tasks_, strategy, notified_,
                   spin_count_, spinv, mpc, mi, executed, future, shutdowns,
                   calls, submitted, sawStopping, drainSet, atShutdown>>
    /\ UNCHANGED evars

\* Mutant: notify() wakes a waiter without storing notified_.
SubmitNotifyNoStore(t) ==
    /\ pc[t] = "e_ret"
    /\ ret[t]
    /\ \/ /\ ~Signalling
          /\ pc' = [pc EXCEPT ![t] = "idle"]
          /\ submitted' = submitted \cup {arg[t]}
          /\ calledIn' = [calledIn EXCEPT ![t] = "none"]
          /\ Forget(t)
       \/ /\ strategy = "Atomic"
          /\ pc' = [pc EXCEPT ![t] = "s_wake"]
          /\ UNCHANGED <<pos, arg, ret, claimed, seen, submitted, calledIn>>
       \/ /\ strategy = "ConditionVariable"
          /\ \/ /\ Blocked = {}
                /\ pc' = [pc EXCEPT ![t] = "idle"]
             \/ \E w \in Blocked :
                    pc' = [pc EXCEPT ![t] = "idle", ![w] = "w_wait"]
          /\ submitted' = submitted \cup {arg[t]}
          /\ calledIn' = [calledIn EXCEPT ![t] = "none"]
          /\ Forget(t)
    /\ UNCHANGED <<qstate, out, state_, active_tasks_, strategy, notified_,
                   spin_count_, spinv, mpc, mi, executed, future, shutdowns,
                   calls, sawStopping, drainSet, atShutdown>>
    /\ notifies' = [notifies EXCEPT ![t] = @ + 1]
    /\ UNCHANGED <<ref, ctor, second, cvars>>

\* Mutant: on success submit returns the future without calling notify().
SubmitReturnNoNotify(t) ==
    /\ pc[t] = "e_ret"
    /\ ret[t]
    /\ pc' = [pc EXCEPT ![t] = "idle"]
    /\ submitted' = submitted \cup {arg[t]}
    /\ calledIn' = [calledIn EXCEPT ![t] = "none"]
    /\ Forget(t)
    /\ UNCHANGED <<qstate, out, state_, active_tasks_, strategy, notified_,
                   spin_count_, spinv, mpc, mi, executed, future, shutdowns,
                   calls, sawStopping, drainSet, atShutdown>>
    /\ UNCHANGED evars

\* enqueue returned true: wait_strategy_->notify(), then return future.  A
\* no-op of the polling strategies, the store of notified_ of
\* AtomicWaitStrategy, the whole locked body of ConditionVariableWaitStrategy.
SubmitNotify(t) ==
    /\ pc[t] = "e_ret"
    /\ ret[t]
    /\ \/ /\ ~Signalling
          /\ pc' = [pc EXCEPT ![t] = "idle"]
          /\ submitted' = submitted \cup {arg[t]}
          /\ calledIn' = [calledIn EXCEPT ![t] = "none"]
          /\ Forget(t)
          /\ UNCHANGED notified_
       \/ /\ strategy = "Atomic"
          /\ notified_' = TRUE
          /\ pc' = [pc EXCEPT ![t] = "s_wake"]
          /\ UNCHANGED <<pos, arg, ret, claimed, seen, submitted, calledIn>>
       \/ /\ strategy = "ConditionVariable"
          /\ notified_' = TRUE
          /\ \/ /\ Blocked = {}
                /\ pc' = [pc EXCEPT ![t] = "idle"]
             \/ \E w \in Blocked :
                    pc' = [pc EXCEPT ![t] = "idle", ![w] = "w_wait"]
          /\ submitted' = submitted \cup {arg[t]}
          /\ calledIn' = [calledIn EXCEPT ![t] = "none"]
          /\ Forget(t)
    /\ UNCHANGED <<qstate, out, state_, active_tasks_, strategy, spin_count_,
                   spinv, mpc, mi, executed, future, shutdowns, calls,
                   sawStopping, drainSet, atShutdown>>
    /\ notifies' = [notifies EXCEPT ![t] = @ + 1]
    /\ UNCHANGED <<ref, ctor, second, cvars>>

\* AtomicWaitStrategy::notify(): notified_.notify_one(), then return future.
SubmitWakeOne(t) ==
    /\ pc[t] = "s_wake"
    /\ \/ /\ Blocked = {}
          /\ pc' = [pc EXCEPT ![t] = "idle"]
       \/ \E w \in Blocked :
              pc' = [pc EXCEPT ![t] = "idle", ![w] = "w_wait"]
    /\ submitted' = submitted \cup {arg[t]}
    /\ calledIn' = [calledIn EXCEPT ![t] = "none"]
    /\ Forget(t)
    /\ UNCHANGED <<qstate, out, state_, active_tasks_, strategy, notified_,
                   spin_count_, spinv, mpc, mi, executed, future, shutdowns,
                   calls, sawStopping, drainSet, atShutdown>>
    /\ UNCHANGED evars

(***************************************************************************)
(* worker_thread(index), run by each worker.                               *)
(***************************************************************************)
\* InternalTask task; task_queue_->dequeue(task), with its first load of
\* dequeue_index_.
WorkerDequeueCall(t) ==
    /\ pc[t] = "w_loop"
    /\ pos' = [pos EXCEPT ![t] = dequeue_index_]
    /\ pc' = [pc EXCEPT ![t] = "d_seq"]
    /\ UNCHANGED <<qstate, arg, out, ret, claimed, seen, pvars>>
    /\ UNCHANGED evars

\* dequeue returned true: strategy.reset().
WorkerReset(t) ==
    /\ pc[t] = "d_ret"
    /\ ret[t]
    /\ notified_' = IF Signalling THEN FALSE ELSE notified_
    /\ spin_count_' = IF strategy = "SpinBackOff" THEN 0 ELSE spin_count_
    /\ pc' = [pc EXCEPT ![t] = "w_add"]
    /\ Forget(t)
    /\ UNCHANGED <<qstate, out, state_, active_tasks_, strategy, spinv, mpc,
                   mi, executed, future, phist>>
    /\ UNCHANGED evars

\* Mutant: the counter is stored as 1, not incremented.
WorkerStoreOne(t) ==
    /\ pc[t] = "w_add"
    /\ active_tasks_' = 1
    /\ pc' = [pc EXCEPT ![t] = "w_run"]
    /\ UNCHANGED <<qstate, locals, state_, strategy, notified_, spin_count_,
                   spinv, mpc, mi, executed, future, phist>>
    /\ UNCHANGED evars

\* active_tasks_.fetch_add(1, acq_rel).
WorkerFetchAdd(t) ==
    /\ pc[t] = "w_add"
    /\ active_tasks_' = Wrap(active_tasks_ + 1)
    /\ pc' = [pc EXCEPT ![t] = "w_run"]
    /\ UNCHANGED <<qstate, locals, state_, strategy, notified_, spin_count_,
                   spinv, mpc, mi, executed, future, phist>>
    /\ UNCHANGED evars

\* Mutant: an exception of the callable leaves worker_thread.
WorkerRunUncaught(t) ==
    /\ pc[t] = "w_run"
    /\ IF out[t] \in Values
       THEN /\ executed' = [executed EXCEPT ![out[t]] = @ + 1]
            /\ future' = [future EXCEPT ![out[t]] =
                              IF Throws(out[t]) THEN @ ELSE ResultOf(out[t])]
            /\ pc' = [pc EXCEPT ![t] =
                          IF Throws(out[t]) THEN "exited" ELSE "w_sub"]
       ELSE /\ pc' = [pc EXCEPT ![t] = "w_sub"]
            /\ UNCHANGED <<executed, future>>
    /\ UNCHANGED <<qstate, locals, state_, active_tasks_, strategy, notified_,
                   spin_count_, spinv, mpc, mi, phist>>
    /\ UNCHANGED evars

\* task.data(): the packaged task runs the callable and sets the future.
WorkerRun(t) ==
    /\ pc[t] = "w_run"
    /\ IF out[t] \in Values
       THEN /\ executed' = [executed EXCEPT ![out[t]] = @ + 1]
            /\ future' = [future EXCEPT ![out[t]] = ResultOf(out[t])]
       ELSE UNCHANGED <<executed, future>>
    /\ pc' = [pc EXCEPT ![t] = "w_sub"]
    /\ UNCHANGED <<qstate, locals, state_, active_tasks_, strategy, notified_,
                   spin_count_, spinv, mpc, mi, phist>>
    /\ UNCHANGED evars

\* active_tasks_.fetch_sub(1, acq_rel); the iteration ends, task is destroyed.
WorkerFetchSub(t) ==
    /\ pc[t] = "w_sub"
    /\ active_tasks_' = Wrap(active_tasks_ - 1)
    /\ out' = [out EXCEPT ![t] = DefaultValue]
    /\ pc' = [pc EXCEPT ![t] = "w_loop"]
    /\ UNCHANGED <<qstate, pos, arg, ret, claimed, seen, state_, strategy,
                   notified_, spin_count_, spinv, mpc, mi, executed, future,
                   phist>>
    /\ UNCHANGED evars

\* dequeue returned false: state_.load(relaxed) == State::Stopping.
WorkerLoadState(t) ==
    /\ pc[t] = "d_ret"
    /\ ~ret[t]
    /\ IF state_ = "Stopping"
       THEN /\ pc' = [pc EXCEPT ![t] = "w_active"]
            /\ sawStopping' = TRUE
            /\ drainSet' = IF sawStopping THEN drainSet
                           ELSE {enqAt[p] : p \in enqDone}
       ELSE /\ pc' = [pc EXCEPT ![t] = "w_wait"]
            /\ UNCHANGED <<sawStopping, drainSet>>
    /\ Forget(t)
    /\ UNCHANGED <<qstate, out, state_, active_tasks_, strategy, notified_,
                   spin_count_, spinv, mpc, mi, executed, future, shutdowns,
                   calls, calledIn, submitted, atShutdown>>
    /\ UNCHANGED evars

\* ... && active_tasks_.load(relaxed) == 0: break, else strategy.wait().
WorkerLoadActive(t) ==
    /\ pc[t] = "w_active"
    /\ pc' = [pc EXCEPT ![t] = IF active_tasks_ = 0 THEN "exited" ELSE "w_wait"]
    /\ UNCHANGED <<qstate, locals, pvars>>
    /\ UNCHANGED evars

\* strategy.wait(): the sleep of PassiveWaitStrategy, the read of spin_count_
\* of SpinBackOffWaitStrategy, the check of notified_ (and the block when it
\* is false) of AtomicWaitStrategy and ConditionVariableWaitStrategy.  The
\* wait() of SpinBackOffWaitStrategy takes its first branch (to "w_spin"), its
\* second branch (to "w_pause") or neither and returns.
WorkerWait(t) ==
    /\ pc[t] = "w_wait"
    /\ \/ /\ strategy = "Passive"
          /\ pc' = [pc EXCEPT ![t] = "w_loop"]
          /\ UNCHANGED spinv
       \/ /\ strategy = "SpinBackOff"
          /\ IF spin_count_ < KSpinCount
             THEN /\ pc' = [pc EXCEPT ![t] = "w_spin"]
                  /\ spinv' = [spinv EXCEPT ![t] = spin_count_]
             ELSE IF spin_count_ < KSpinCount + KPauseCount
             THEN /\ pc' = [pc EXCEPT ![t] = "w_pause"]
                  /\ spinv' = [spinv EXCEPT ![t] = spin_count_]
             ELSE /\ pc' = [pc EXCEPT ![t] = "w_loop"]
                  /\ UNCHANGED spinv
       \/ /\ Signalling
          /\ pc' = [pc EXCEPT ![t] = IF notified_ THEN "w_loop" ELSE "w_blocked"]
          /\ UNCHANGED spinv
    /\ UNCHANGED <<qstate, locals, state_, active_tasks_, strategy, notified_,
                   spin_count_, mpc, mi, executed, future, phist>>
    /\ UNCHANGED evars

\* ++spin_count_ on the plain uint64_t shared by the workers: the increment
\* of the value compared, or of the value the counter holds now.  In the
\* second branch the pause hint (_mm_pause, yield of ARM64) follows.
WorkerSpinIncrement(t) ==
    /\ pc[t] \in {"w_spin", "w_pause"}
    /\ \E c \in {spinv[t] + 1, spin_count_ + 1} : spin_count_' = c
    /\ spinv' = [spinv EXCEPT ![t] = 0]
    /\ pc' = [pc EXCEPT ![t] = "w_loop"]
    /\ UNCHANGED <<qstate, locals, state_, active_tasks_, strategy, notified_,
                   mpc, mi, executed, future, phist>>
    /\ UNCHANGED evars

\* A blocked wait may wake without a notification; it checks notified_ again.
WorkerSpuriousWake(t) ==
    /\ pc[t] = "w_blocked"
    /\ pc' = [pc EXCEPT ![t] = "w_wait"]
    /\ UNCHANGED <<qstate, locals, pvars>>
    /\ UNCHANGED evars

\* The steps of a worker other than a wake-up nobody sent.
WorkerStep(t) ==
    \/ WorkerDequeueCall(t)
    \/ Dequeue(t)
    \/ WorkerReset(t)
    \/ WorkerFetchAdd(t)
    \/ WorkerRun(t)
    \/ WorkerFetchSub(t)
    \/ WorkerLoadState(t)
    \/ WorkerLoadActive(t)
    \/ WorkerWait(t)
    \/ WorkerSpinIncrement(t)

\* The steps of a submit call that is under way.
SubmitStep(t) ==
    \/ Enqueue(t)
    \/ SubmitThrow(t)
    \/ SubmitNotify(t)
    \/ SubmitWakeOne(t)

Init ==
    PoolInit

Next ==
    \/ LaunchWorker
    \/ LaunchFail
    \/ StoreRunning
    \/ ShutdownCall
    \/ Shutdown
    \/ \E t \in Submitters : SubmitCall(t)
    \/ \E t \in Submitters : SubmitStep(t)
    \/ \E t \in Consumers : WorkerStep(t)
    \/ \E t \in Consumers : WorkerSpuriousWake(t)

Spec == Init /\ [][Next]_vars


(***************************************************************************)
(* Scheduling.  A thread that can take a step of a call under way takes    *)
(* one; a compare_exchange_weak that is retried for ever does not fail     *)
(* spuriously for ever.  Nothing obliges a client to call submit or        *)
(* shutdown, and nothing obliges a blocked wait to wake by itself.         *)
(***************************************************************************)
OwnerStep ==
    \/ LaunchWorker
    \/ StoreRunning
    \/ Shutdown

Fairness ==
    /\ WF_vars(OwnerStep)
    /\ \A t \in Consumers : WF_vars(WorkerStep(t)) /\ SF_vars(DeqCasStrong(t))
    /\ \A t \in Submitters : WF_vars(SubmitStep(t)) /\ SF_vars(EnqCasStrong(t))

FairSpec == Init /\ [][Next]_vars /\ Fairness

(***************************************************************************)
(* The pool while nobody calls shutdown(): the behaviours in which the     *)
(* state stays Running once the constructor has returned.  No worker finds *)
(* Stopping, so none goes on to load active_tasks_.                        *)
(***************************************************************************)
RunningWorkerStep(t) ==
    \/ WorkerDequeueCall(t)
    \/ Dequeue(t)
    \/ WorkerReset(t)
    \/ WorkerFetchAdd(t)
    \/ WorkerRun(t)
    \/ WorkerFetchSub(t)
    \/ WorkerLoadState(t)
    \/ WorkerWait(t)
    \/ WorkerSpinIncrement(t)

RunningNext ==
    \/ LaunchWorker
    \/ StoreRunning
    \/ \E t \in Submitters : SubmitCall(t)
    \/ \E t \in Submitters : SubmitStep(t)
    \/ \E t \in Consumers : RunningWorkerStep(t)
    \/ \E t \in Consumers : WorkerSpuriousWake(t)

RunningSpec == Init /\ [][RunningNext]_vars /\ Fairness

(***************************************************************************)
(* The pool with two threads that call shutdown() and no call of submit:   *)
(* the workers find the queue empty every time.                            *)
(***************************************************************************)
IdleWorkerStep(t) ==
    \/ WorkerDequeueCall(t)
    \/ DeqLoadSeq(t)
    \/ WorkerLoadState(t)
    \/ WorkerLoadActive(t)
    \/ WorkerWait(t)
    \/ WorkerSpinIncrement(t)

TwoCallerInit ==
    /\ PoolMembers
    /\ ref = NoRef
    /\ ctor = NoCtor
    /\ second = [pc |-> "idle", i |-> 0]
    /\ notifies = NoNotifies
    /\ ChannelInit

TwoCallerNext ==
    \/ LaunchWorker
    \/ StoreRunning
    \/ ShutdownCall
    \/ Shutdown
    \/ SecondShutdown
    \/ JoinRace
    \/ \E t \in Consumers : IdleWorkerStep(t)
    \/ \E t \in Consumers : WorkerSpuriousWake(t)

TwoCallerSpec == TwoCallerInit /\ [][TwoCallerNext]_vars

(***************************************************************************)
(* Properties of the pool.                                                 *)
(***************************************************************************)
\* C4: when shutdown has completed (state Stopped), every envelope whose
\* enqueue returned true before any worker first observed Stopping has been
\* executed by some worker.
C4_DrainedAtStopped ==
    (state_ = "Stopped" /\ sawStopping) =>
        \A v \in drainSet : executed[v] >= 1

\* No submit call is under way.
SubmittersIdle == \A t \in Submitters : pc[t] = "idle"

\* C5: once shutdown() has passed its state check with no submit under way,
\* either a further submit is called or every worker leaves its loop, every
\* join completes and the state becomes Stopped, whatever the wait strategy.
C5_ShutdownTerminates ==
    (mpc = "sd_store" /\ SubmittersIdle)
        ~> (state_ = "Stopped" \/ ~SubmittersIdle)

\* C6: while the pool is Running, an envelope whose submit succeeded is
\* eventually invoked and its future holds the callable's result (or the
\* pool stops being Running), whatever the wait strategy.
C6_SubmittedIsExecuted ==
    \A v \in Envelopes :
        (v \in submitted /\ state_ = "Running")
            ~> (future[v] = ResultOf(v) \/ state_ # "Running")

\* A submit has returned its future while every worker had found the queue
\* empty and was waiting, and the envelope has been run since.
C6_Witness ==
    \E v \in Values :
        /\ v \in submitted
        /\ state_ = "Running"
        /\ future[v] = ResultOf(v)
        /\ executed[v] = 1
        /\ \A w \in Consumers : pc[w] \in {"w_wait", "w_blocked", "w_spin", "w_pause"}

\* C7: no envelope is invoked twice, and after a completed shutdown every
\* envelope whose submit had returned before shutdown() was called has been
\* invoked exactly once (the counter equals k).
C7_ExactlyOnce ==
    /\ \A v \in Values : executed[v] <= 1
    /\ state_ = "Stopped" => \A v \in atShutdown : executed[v] = 1

\* C8: a submit called while the state is not Running never enqueues its
\* envelope.
C8_RejectedUnlessRunning ==
    \A t \in Submitters :
        calledIn[t] \in {"Initializing", "Stopping", "Stopped"} =>
            /\ pc[t] \notin {"e_write", "e_store", "s_wake"}
            /\ ~(pc[t] = "e_ret" /\ ret[t])

\* t is inside strategy.wait().
InWait(t) == pc[t] \in {"w_wait", "w_spin", "w_pause", "w_blocked"}

\* C13: with each of the four strategies, a worker that calls wait() after
\* its dequeue found the queue empty returns from wait(), also when no
\* submit call, hence no notify(), follows (no shutdown is called here, so
\* no notify_all() either).
C13_WaitReturns ==
    \A w \in Consumers :
        (pc[w] = "w_wait" /\ SubmittersIdle)
            ~> (~InWait(w) \/ ~SubmittersIdle)

\* C14: a worker that is blocked inside wait() when shutdown() calls
\* notify_all() returns from that wait(), whatever reset() calls other
\* workers make after their dequeues.
C14_NotifyAllReleases ==
    \A w \in Consumers :
        (mpc = "sd_notify" /\ Signalling /\ pc[w] = "w_blocked")
            ~> ~InWait(w)

\* C15: once a call of shutdown() has completed (the state is Stopped), the
\* state stays Stopped, and a further call of shutdown() returns at once and
\* changes no member of the pool, no cell of the queue and no thread.
C15_ShutdownIdempotent ==
    [][state_ = "Stopped" =>
          /\ state_' = "Stopped"
          /\ shutdowns' # shutdowns =>
                 /\ mpc = "ready" /\ mpc' = "ready"
                 /\ UNCHANGED <<qstate, locals, pc, active_tasks_, strategy,
                                notified_, spin_count_, spinv, mi, executed,
                                future>>]_vars

\* A second and a third call of shutdown() have returned on a stopped pool.
C15_Witness ==
    /\ state_ = "Stopped"
    /\ shutdowns = 3
    /\ mpc = "ready"
    /\ \A w \in Consumers : pc[w] = "exited"

\* The enqueue of the submit call of t has returned false.
EnqueueRefused(t) == pc[t] = "e_ret" /\ ~ret[t]

\* C16: when the enqueue of a submit call returns false, the envelope is in
\* no cell and at no position of the queue, no handle will be completed for
\* it, and the call ends by throwing: that step wakes no worker, does not
\* set the notification flag, and leaves the queue, the pool state and
\* active_tasks as they are.
C16_FullQueueThrows ==
    /\ [](\A t \in Submitters :
             EnqueueRefused(t) =>
                 /\ \A i \in DOMAIN value : value[i] # arg[t]
                 /\ \A p \in Positions : enqAt[p] # arg[t]
                 /\ arg[t] \notin submitted
                 /\ executed[arg[t]] = 0
                 /\ future[arg[t]] = NoValue)
    /\ [][\A t \in Submitters :
              (EnqueueRefused(t) /\ pc'[t] # pc[t]) =>
                  /\ pc'[t] = "idle"
                  /\ \A w \in Consumers : pc'[w] = pc[w]
                  /\ UNCHANGED <<qstate, state_, active_tasks_, notified_,
                                 executed, future, submitted>>]_vars

\* The third submit call found both cells of the queue taken and threw,
\* while the pool is Running.
C16_Witness ==
    \E t \in Submitters :
        /\ pc[t] = "idle"
        /\ calls[t] = 3
        /\ submitted = {ValueOf(t, 1), ValueOf(t, 2)}
        /\ state_ = "Running"
        /\ Signalling

\* The worker t is about to run a callable that raises.
RunsThrowing(t) == pc[t] = "w_run" /\ out[t] \in Envelopes /\ Throws(out[t])

\* C17: a callable that raises leaves its exception in the handle of its
\* own task and changes nothing else: the worker that ran it goes on to
\* decrement active_tasks and to the next iteration of its loop, no other
\* thread moves, no member of the pool and no cell of the queue changes, and
\* while the state is Running every one of the workers is alive.
C17_TaskFailureIsolated ==
    /\ [](/\ \A v \in Envelopes :
                (Throws(v) /\ executed[v] >= 1) => future[v] = Raised
          /\ state_ = "Running" =>
                \A w \in Consumers : pc[w] \notin {"unborn", "exited"})
    /\ [][\A t \in Consumers :
              /\ (RunsThrowing(t) /\ pc'[t] # pc[t]) =>
                     /\ pc'[t] = "w_sub"
                     /\ \A u \in Threads \ {t} : pc'[u] = pc[u]
                     /\ future' = [future EXCEPT ![out[t]] = Raised]
                     /\ UNCHANGED <<qstate, state_, active_tasks_, notified_,
                                    spin_count_, mpc, mi>>
              /\ (pc[t] = "w_sub" /\ pc'[t] # pc[t]) =>
                     /\ pc'[t] = "w_loop"
                     /\ active_tasks_' = Wrap(active_tasks_ - 1)]_vars

\* A callable has raised, a callable submitted after it has returned its
\* value, and both workers are back in their loops of a Running pool.
C17_Witness ==
    \E t \in Submitters :
        /\ future[ValueOf(t, 2)] = Raised
        /\ executed[ValueOf(t, 2)] = 1
        /\ future[ValueOf(t, 3)] = ResultOf(ValueOf(t, 3))
        /\ state_ = "Running"
        /\ active_tasks_ = 0
        /\ \A w \in Consumers : pc[w] \notin {"unborn", "exited"}

\* The construction of the pool has failed.
ConstructionFailed == mpc \in {"ctor_threw", "terminated"}

\* C18: when the start of a worker fails during construction, the caller
\* gets the error, every worker started before it has left its loop and been
\* joined, and the state is not Running.
C18_SpawnFailureTearsDown ==
    ConstructionFailed =>
        /\ mpc = "ctor_threw"
        /\ \A w \in Consumers : pc[w] \in {"unborn", "exited"}
        /\ state_ # "Running"

\* C20: the state is Stopped only when every worker has left its loop, and
\* the store of Stopped comes after the join of the last worker.
C20_StoppedAfterWorkersExit ==
    /\ [](state_ = "Stopped" => \A w \in Consumers : pc[w] = "exited")
    /\ [][(state_ # "Stopped" /\ state_' = "Stopped") =>
              /\ mpc = "sd_join"
              /\ mi = NumConsumers
              /\ \A w \in Consumers : pc[w] = "exited"]_vars

\* A pool that has executed an envelope has been shut down.
C20_Witness ==
    /\ state_ = "Stopped"
    /\ shutdowns = 1
    /\ \E v \in Envelopes : executed[v] = 1
    /\ \A w \in Consumers : pc[w] = "exited"

\* A step in which worker t leaves the loop of worker_thread.
Exits(t) == pc[t] # "exited" /\ pc'[t] = "exited"

\* C27: at the step in which a worker leaves its loop the state is
\* Stopping, the queue holds no element and active_tasks is 0.
C27_ExitOnlyWhenDrained ==
    [][\A t \in Consumers :
           Exits(t) =>
               /\ state_ = "Stopping"
               /\ Unconsumed = 0
               /\ active_tasks_ = 0]_vars

\* Worker u has an envelope that its dequeue returned and whose callable has
\* not finished: before reset(), before fetch_add, or running it.
HoldsEnvelope(u) ==
    \/ pc[u] = "d_ret" /\ ret[u]
    \/ pc[u] \in {"w_add", "w_run"}

\* C28: no worker leaves its loop while another worker holds an envelope.
C28_NoExitWhilePeerHoldsWork ==
    [][\A t \in Consumers :
           Exits(t) => \A u \in Consumers \ {t} : ~HoldsEnvelope(u)]_vars

\* The workers between their fetch_add and their fetch_sub.
Executing == {w \in Consumers : pc[w] \in {"w_run", "w_sub"}}

\* C29: active_tasks is the number of workers between fetch_add and
\* fetch_sub: it is at least 0 and at most PoolSize, and 0 when no worker is
\* executing an envelope.
C29_ActiveTasksCountsExecuting ==
    /\ active_tasks_ = Cardinality(Executing)
    /\ active_tasks_ \in 0 .. NumConsumers
    /\ Executing = {} => active_tasks_ = 0

\* Both workers are executing, and an envelope was executed before.
C29_Witness ==
    /\ active_tasks_ = 2
    /\ Cardinality(Executing) = 2
    /\ \E v \in Envelopes : executed[v] = 1

\* The moves of the lifecycle variable.
Forward ==
    {<<"Initializing", "Running">>, <<"Running", "Stopping">>,
     <<"Stopping", "Stopped">>}

\* C30: every step leaves state_ as it is or moves it one stage forward,
\* Initializing to Running to Stopping to Stopped, also with two threads in
\* shutdown(); and Running is stored when all the workers have been started.
C30_LifecycleForward ==
    [][/\ state_' # state_ => <<state_, state_'>> \in Forward
       /\ (state_' # state_ /\ state_' = "Running") =>
              \A w \in Consumers : pc[w] # "unborn"]_vars


\* The envelopes of submitter t whose enqueue has returned true.
EnqueuedBy(t) == {p \in enqDone : ProducerOf(enqAt[p]) = t}

\* The envelopes of submitter t for which submit has returned a future.
SubmittedBy(t) == {v \in submitted : ProducerOf(v) = t}

\* C31: submit calls notify() once for each enqueue that returned true and
\* after it returned, so the envelope is published when notify() is called;
\* it calls notify() neither before the enqueue has returned nor for an
\* enqueue that returned false, and returns the future after the call.
C31_NotifyOncePerSuccess ==
    \A t \in Submitters :
        /\ notifies[t] = Cardinality(EnqueuedBy(t))
                          - (IF pc[t] = "e_ret" /\ ret[t] THEN 1 ELSE 0)
        /\ Cardinality(SubmittedBy(t)) =
               notifies[t] - (IF pc[t] = "s_wake" THEN 1 ELSE 0)

\* Two submits have succeeded and a third one has thrown on a full queue.
C31_Witness ==
    \E t \in Submitters :
        /\ pc[t] = "idle"
        /\ calls[t] = 3
        /\ Cardinality(SubmittedBy(t)) = 2
        /\ notifies[t] = 2


\* A step in which a call of shutdown() returns to its caller: the early
\* return of the state check, or the return after the store of Stopped.
ShutdownReturns ==
    \/ mpc = "ready" /\ shutdowns' # shutdowns /\ mpc' = "ready"
    \/ mpc = "sd_join" /\ mpc' = "ready"
    \/ second.pc # "returned" /\ second'.pc = "returned"

\* C32: when a call of shutdown() returns, also one that overlaps the call
\* of another thread, the state is Stopped and every worker has exited.
C32_StoppedWhenShutdownReturns ==
    [][ShutdownReturns =>
           /\ state_' = "Stopped"
           /\ \A w \in Consumers : pc'[w] = "exited"]_vars


\* The envelopes whose submit has returned a future that no worker has run:
\* their futures are not ready.
Unresolved == {v \in submitted : executed[v] = 0}

\* C33: once the state is Stopped, every envelope whose submit returned a
\* future has been run, whatever the interleaving of the submit calls with
\* shutdown(): no returned future stays unresolved in the queue.
C33_NoHandleLeftUnresolved ==
    state_ = "Stopped" => Unresolved = {}


\* Thread t takes a step of its call.
StepOf(t) == pc'[t] # pc[t] \/ pos'[t] # pos[t]

\* Thread t is in a call and has claimed no position: it loads an index,
\* tests a cell sequence or tries the exchange.
Unclaimed(t) == pc[t] \in {"idle", "e_seq", "e_cas", "d_seq", "d_cas"}

\* C34: a call that returns false has changed nothing.  false is returned
\* from the test of the cell sequence only, by a thread that has claimed no
\* position; and every step of a thread that has claimed none and claims none
\* leaves the two indexes, every cell sequence and value and the thread's out
\* parameter as they are.
C34_FalseChangesNothing ==
    [][\A t \in Threads :
          /\ (pc'[t] # pc[t] /\ pc'[t] \in {"e_ret", "d_ret"} /\ ~ret'[t]) =>
                 pc[t] \in {"e_seq", "d_seq"}
          /\ (StepOf(t) /\ Unclaimed(t) /\ pc'[t] \notin
                  {"idle", "e_write", "d_move"}) =>
                 /\ UNCHANGED <<sequence, value, enqueue_index_,
                                dequeue_index_>>
                 /\ out'[t] = out[t]]_vars

\* A dequeue has returned false to a consumer that holds a value of an
\* earlier dequeue, while an enqueue has returned false to a producer.
C34_Witness ==
    /\ \E c \in Consumers :
           pc[c] = "d_ret" /\ ~ret[c] /\ out[c] \in Values
    /\ \E p \in Producers : pc[p] = "e_ret" /\ ~ret[p]


\* What the n + 1st call of wait() since the last reset() is to do: spin,
\* issue the pause hint, or yield to the scheduler.
BranchOf(n) ==
    IF n < KSpinCount THEN "w_spin"
    ELSE IF n < KSpinCount + KPauseCount THEN "w_pause"
    ELSE "w_yield"

\* The counter of SpinBackOffWaitStrategy stays within its two phases.
SpinCountBounded ==
    strategy = "SpinBackOff" => spin_count_ <= KSpinCount + KPauseCount

\* C35: with SpinBackOffWaitStrategy shared by the workers, the count never
\* exceeds KSpinCount + KPauseCount; a call of wait() that finds the count n
\* spins for n < KSpinCount, issues the pause hint for the next KPauseCount
\* values and yields to the scheduler from then on; each call in the first
\* two phases adds one to the count, and reset() sets the count to 0.
C35_SpinThenPauseThenYield ==
    /\ []SpinCountBounded
    /\ [][strategy = "SpinBackOff" =>
              \A t \in Consumers :
                  /\ (pc[t] = "w_wait" /\ pc'[t] \in
                          {"w_spin", "w_pause", "w_loop"}) =>
                         pc'[t] = BranchOf(spin_count_)
                  /\ (pc[t] \in {"w_spin", "w_pause"} /\ pc'[t] = "w_loop") =>
                         spin_count_' = spin_count_ + 1
                  /\ (pc[t] = "d_ret" /\ pc'[t] = "w_add") =>
                         spin_count_' = 0]_vars


(***************************************************************************)
(* The sequential client on a queue that has been in use: k elements have  *)
(* gone through it, so that the indexes and the cell sequences are about   *)
(* to wrap, or have wrapped, modulo 2 ^ Width.                             *)
(***************************************************************************)
\* The first position from k on that falls into cell c.
NextPositionOf(c, k) == k + ((c + queue_size - (k % queue_size)) % queue_size)

\* The queue after k enqueues, each followed by its dequeue: empty, both
\* indexes at k, every cell released for its next position.
UsedQueue(k) ==
    /\ sequence = [c \in 0 .. (queue_size - 1) |-> Wrap(NextPositionOf(c, k))]
    /\ value = [c \in 0 .. (queue_size - 1) |->
                   IF NextPositionOf(c, k) >= queue_size THEN MovedFrom
                   ELSE DefaultValue]
    /\ enqueue_index_ = Wrap(k)
    /\ dequeue_index_ = Wrap(k)
    /\ enqClaims = 0
    /\ deqClaims = 0
    /\ enqAt = [p \in Positions |-> NoValue]
    /\ enqDone = {}
    /\ deqAt = [p \in Positions |-> NoValue]
    /\ deqDone = {}

WrapInit ==
    /\ \E k \in 0 .. (Mod - 1) : UsedQueue(k)
    /\ ThreadInit
    /\ NoPool
    /\ NoExtras

SpecWrap == WrapInit /\ [][SeqNext]_vars

\* The elements in the queue, oldest first, read from the cells between
\* the two indexes.
Held ==
    [i \in 1 .. Gap |-> value[CellIndex(Wrap(dequeue_index_ + i - 1))]]

\* C36: with indexes and cell sequences that wrap modulo 2 ^ Width and the
\* difference taken as a signed number of Width bits, the queue stays a
\* bounded FIFO of capacity queue_size across the wrap: the difference
\* computed at the test of the cell sequence is 0 when the reference takes
\* the call and negative when it refuses it (full, empty), the call returns
\* what the reference returns, and between calls the cells between the two
\* indexes hold the reference's elements in its order.
C36_FifoAcrossWrap ==
    /\ \A t \in Threads :
           /\ pc[t] = "e_seq" =>
                  LET diff == SignedDiff(sequence[CellIndex(pos[t])], pos[t])
                  IN  IF ref.ret THEN diff = 0 ELSE diff < 0
           /\ pc[t] = "d_seq" =>
                  LET diff == SignedDiff(sequence[CellIndex(pos[t])],
                                         DeqExpect(pos[t]))
                  IN  IF ref.ret THEN diff = 0 ELSE diff < 0
           /\ pc[t] = "e_ret" => ret[t] = ref.ret
           /\ pc[t] = "d_ret" =>
                  /\ ret[t] = ref.ret
                  /\ ret[t] => out[t] = ref.out
    /\ NoCallRuns =>
           /\ Gap \in 0 .. queue_size
           /\ Held = ref.q

\* The queue is full across the wrap: the enqueue index has wrapped, the
\* dequeue index has not, and an enqueue has just been refused.
C36_Witness ==
    /\ dequeue_index_ = Mod - 1
    /\ enqueue_index_ = queue_size - 1
    /\ Len(ref.q) = queue_size
    /\ \E t \in Threads : pc[t] = "e_ret" /\ ~ret[t]


\* The values receive() has returned since close().
TakenSinceClose ==
    Cardinality({i \in 1 .. Len(sinceClose) : sinceClose[i] # Nullopt})

WakePending == \E t \in ChannelThreads : cpc[t] \in {"s_woken", "r_woken"}

\* C38: the queue never holds more than MAX_SIZE values; a send waits as
\* long as the channel is full and open and no longer (a sender is blocked
\* only while the channel is full and open, or while a wake-up that follows
\* a receive or close() is under way), and pushes only into an open channel
\* with room; a send on a closed channel throws and pushes nothing.
C38_BoundedSend ==
    /\ [](Len(m_queue) <= MAX_SIZE)
    /\ [](\A s \in Senders :
             cpc[s] = "s_wait" =>
                 \/ Len(m_queue) = MAX_SIZE /\ ~m_closed
                 \/ WakePending)
    /\ [][Len(m_queue') > Len(m_queue) =>
              /\ Len(m_queue) < MAX_SIZE
              /\ ~m_closed
              /\ Len(m_queue') = Len(m_queue) + 1]_vars
    /\ [][(m_closed /\ sends' # sends) =>
              /\ m_queue' = m_queue
              /\ cpc' = cpc
              /\ \A s \in Senders : cres'[s] \in {cres[s], ThrewClosed}]_vars
    /\ [][\A s \in Senders :
              (m_closed /\ cpc[s] = "s_woken" /\ cpc'[s] = "idle") =>
                  cres'[s] = ThrewClosed /\ m_queue' = m_queue]_vars

=============================================================================
